---------------------------- MODULE Spec2Model ----------------------------
(***************************************************************************)
(* Model of the validation-and-retrieval core of writer-harness:           *)
(*   harness/lint/continuity.py, harness/lint/style.py,                    *)
(*   harness/lore/ingest.py, harness/lore/retrieve.py.                     *)
(* Text is a sequence of one-character strings.                            *)
(***************************************************************************)
EXTENDS Integers, Sequences, FiniteSets, TLC

VARIABLES
    pc,        \* name of the last operation that returned ("init" before any)
    text,      \* the document handed to the checkers
    ledger,    \* ContinuityLedger snapshot (fields the checkers read)
    banned_phrases,   \* BannedPhrases: the banned and the warn pattern lists
    scene_location,   \* lint_style: the optional scene location
    lore_dir,  \* the lore directory: whether it exists, and its files
    keywords,  \* retrieve_lore: the keyword list
    top_k,     \* retrieve_lore: the result cap
    max_chars_per_snippet,
    state_path,       \* state.yaml: whether it exists, and the mapping it holds
    ratio,     \* rapidfuzz.fuzz.partial_ratio, as a table over the pairs queried
    result,    \* value returned by the last operation
    returned,  \* the caller's record of the values it was handed, in order
    settings,  \* harness.config.settings: the object the module attribute names now
    revise_settings,  \* the object the name settings of harness.pipelines.revise is bound to
    prompt,    \* pipeline local: the prompt built for the provider
    provider,  \* pipeline local: the provider instance get_provider returned
    generated, \* pipeline local: the text provider.generate returned
    trace,     \* the calls of the running pipeline, in order
    strict,    \* revise command: the --strict flag
    exit_code, \* revise command: the exit status, once it has exited
    config_files,  \* style_rules.yaml, banned_phrases.yaml: content, or absent
    scenes,    \* the *.md files of the scenes directory: number -> content
    outputs    \* whether the outputs directory exists

vars == <<pc, text, ledger, state_path, banned_phrases, scene_location, lore_dir, keywords, top_k, max_chars_per_snippet, ratio, result, returned,
         settings, revise_settings, prompt, provider, generated, trace, strict, exit_code,
         config_files, scenes, outputs>>

configuration == <<settings, revise_settings>>

locals == <<prompt, provider, generated, trace>>

command == <<strict, exit_code>>

workspace == <<config_files, scenes, outputs>>

\* what the checkers, the loaders and the retriever never touch
rest == <<configuration, locals, command, workspace>>

----------------------------------------------------------------------------
(* Bounds *)

MaxRepeat == 5        \* a unit sentence is repeated 0..MaxRepeat times
MaxBaseline == 3      \* elapsed-time baselines 0..MaxBaseline
MaxWho == 2           \* length of who_present
MaxTopK == 3          \* top_k ranges over 0..MaxTopK
MaxKeywords == 2      \* length of the keyword list
MaxLines == 2         \* lines of a document drawn from all line pairs
MaxPatterns == 2      \* length of the banned pattern list
MaxQuoteRun == 11     \* longest run of lines with a quotation mark
MaxEdits == 2         \* revisions a user saves of one configuration file
MaxScenes == 3        \* scene files in the scenes directory
MaxExcess == 3        \* characters of a line beyond the context excerpt
MaxKept == 3          \* results a caller keeps for comparison
MaxWords == 3         \* words of a document handed to the keyword extractor

----------------------------------------------------------------------------
(* Characters and Python str primitives *)

NL == "\n"

UpperChars == <<"A","B","C","D","E","F","G","H","I","J","K","L","M",
                "N","O","P","Q","R","S","T","U","V","W","X","Y","Z">>

LowerChars == <<"a","b","c","d","e","f","g","h","i","j","k","l","m",
                "n","o","p","q","r","s","t","u","v","w","x","y","z">>

DigitChars == <<"0","1","2","3","4","5","6","7","8","9">>

Range(s) == { s[i] : i \in DOMAIN s }

IsUpper(c) == c \in Range(UpperChars)

IsLower(c) == c \in Range(LowerChars)

IsDigit(c) == c \in Range(DigitChars)

IsSpace(c) == c \in {" ", NL, "\t"}

IsWord(c) == IsUpper(c) \/ IsLower(c) \/ IsDigit(c) \/ c = "_"

LowerChar(c) ==
    IF IsUpper(c) THEN LowerChars[CHOOSE i \in DOMAIN UpperChars : UpperChars[i] = c]
    ELSE c

Lower(s) == [i \in DOMAIN s |-> LowerChar(s[i])]

DigitValue(c) == (CHOOSE i \in DOMAIN DigitChars : DigitChars[i] = c) - 1

RECURSIVE ParseInt(_)
ParseInt(ds) ==
    IF ds = <<>> THEN 0
    ELSE 10 * ParseInt(SubSeq(ds, 1, Len(ds) - 1)) + DigitValue(ds[Len(ds)])

RECURSIVE ToDigits(_)
ToDigits(n) ==
    IF n < 10 THEN <<DigitChars[n + 1]>>
    ELSE ToDigits(n \div 10) \o <<DigitChars[(n % 10) + 1]>>

In(sub, s) ==
    \E i \in 0..(Len(s) - Len(sub)) : SubSeq(s, i + 1, i + Len(sub)) = sub

Min(S) == CHOOSE x \in S : \A y \in S : x <= y

\* str.split('\n'): line k lies between the (k-1)-th and the k-th newline
SplitLines(s) ==
    LET nl == { i \in DOMAIN s : s[i] = NL }
        before(k) == IF k = 1 THEN 0
                     ELSE CHOOSE i \in nl : Cardinality({ j \in nl : j < i }) = k - 2
        after(k) == IF k = Cardinality(nl) + 1 THEN Len(s) + 1
                    ELSE CHOOSE i \in nl : Cardinality({ j \in nl : j < i }) = k - 1
    IN  [k \in 1..(Cardinality(nl) + 1) |-> SubSeq(s, before(k) + 1, after(k) - 1)]

RECURSIVE Repeat(_, _)
Repeat(s, n) == IF n = 0 THEN <<>> ELSE s \o Repeat(s, n - 1)

StartsWithAt(s, i, w) ==
    /\ i + Len(w) - 1 <= Len(s)
    /\ SubSeq(s, i, i + Len(w) - 1) = w

----------------------------------------------------------------------------
(* String literals of the source and of the documents used as inputs *)


UnitLibrary ==
    <<"S","h","e"," ","s","a","t"," ","i","n"," ","t","h","e"," ","L","i","b","r","a","r","y",
    "."," ">>

UnitHall ==
    <<"H","e"," ","w","a","l","k","e","d"," ","d","o","w","n"," ","t","h","e"," ","h","a","l",
    "l","."," ">>

UnitLowerLibrary ==
    <<"t","h","e","y"," ","w","e","r","e"," ","i","n"," ","t","h","e"," ","l","i","b","r","a",
    "r","y","\n">>

UnitSplitLibrary ==
    <<"S","h","e"," ","s","a","t"," ","i","n"," ","t","h","e"," ","L","i","b","\n","r","a","r",
    "y","."," ">>

LocLibrary ==
    <<"L","i","b","r","a","r","y">>

LocHall ==
    <<"t","h","e"," ","H","a","l","l">>

LocSplit ==
    <<"L","i","b","\n","r","a","r","y">>

MsgLocationPrefix ==
    <<"C","u","r","r","e","n","t"," ","l","o","c","a","t","i","o","n"," ","'">>

MsgLocationSuffix ==
    <<"'"," ","n","o","t"," ","m","e","n","t","i","o","n","e","d"," ","i","n"," ","t","e","x",
    "t">>

CtxLocation ==
    <<"C","o","n","f","i","r","m"," ","s","c","e","n","e"," ","i","s"," ","s","t","i","l","l",
    " ","i","n"," ","t","h","i","s"," ","l","o","c","a","t","i","o","n">>

MsgCharacterPrefix ==
    <<"C","h","a","r","a","c","t","e","r"," ","'">>

MsgCharacterSuffix ==
    <<"'"," ","s","u","p","p","o","s","e","d"," ","p","r","e","s","e","n","t"," ","b","u","t",
    " ","n","o","t"," ","m","e","n","t","i","o","n","e","d">>

CtxCharacter ==
    <<"C","h","e","c","k"," ","i","f"," ","c","h","a","r","a","c","t","e","r"," ","s","h","o",
    "u","l","d"," ","s","t","i","l","l"," ","b","e"," ","i","n"," ","s","c","e","n","e">>

MsgTimePrefix ==
    <<"T","i","m","e"," ","r","e","f","e","r","e","n","c","e"," ","(">>

MsgTimeSuffix ==
    <<")"," ","m","a","y"," ","e","x","c","e","e","d"," ","e","l","a","p","s","e","d"," ","t",
    "i","m","e">>

CtxTimePrefix ==
    <<"E","l","a","p","s","e","d",":"," ">>

NameAlice ==
    <<"A","l","i","c","e">>

NameBob ==
    <<"B","o","b">>

NameAide ==
    <<"A","i","d","e">>

NameStaff ==
    <<"S","T","A","F","F">>

NameAideOutside ==
    <<"A","i","d","e"," ","(","o","u","t","s","i","d","e"," ","d","o","o","r",")">>

NameDr ==
    <<"D","r",".">>

DocAliceBob ==
    <<"A","l","i","c","e"," ","p","o","u","r","e","d"," ","c","o","f","f","e","e","."," ","B",
    "o","b"," ","n","o","d","d","e","d",".">>

DocAliceOnly ==
    <<"a","l","i","c","e"," ","p","o","u","r","e","d"," ","c","o","f","f","e","e"," ","a","n",
    "d"," ","s","a","t"," ","d","o","w","n",".">>

DocBobby ==
    <<"B","o","b","b","y"," ","m","e","t"," ","M","a","l","i","c","e",".">>

DocAideOutside ==
    <<"T","h","e"," ","A","i","d","e"," ","(","o","u","t","s","i","d","e"," ","d","o","o","r",
    ")"," ","w","a","i","t","e","d",".">>

DocDr ==
    <<"D","r","."," ","B","o","b"," ","c","a","m","e"," ","i","n",".">>

DocQuiet ==
    <<"T","h","e"," ","r","o","o","m"," ","w","a","s"," ","q","u","i","e","t",".">>

ElUnknown ==
    <<"u","n","k","n","o","w","n">>

ElAbout ==
    <<"a","b","o","u","t"," ","2"," ","h","o","u","r","s">>

ElNoSpace ==
    <<"2","h","o","u","r","s">>

ElHour ==
    <<"1"," ","H","o","u","r">>

ElDaysLater ==
    <<"1"," ","d","a","y",","," ","9"," ","h","o","u","r","s">>

TimeDocPrefix ==
    <<"I","t"," ","h","a","d"," ","b","e","e","n"," ">>

TimeDocSuffix ==
    <<" ","m","i","n","u","t","e","s",".">>

DocTimeMany ==
    <<"I","t"," ","t","o","o","k"," ","1","0"," ","d","a","y","l","i","g","h","t"," ","7"," ",
    "m","i","n","u","t","e","s"," ","7"," "," ","h","o","u","r","s"," ","1","2"," ","3","4"," ",
    "d","a","y","s"," ","1",".","5"," ","h","o","u","r","s"," ","a","9","9"," ","H","o","u","r",
    "s">>

DocTimeNone ==
    <<"S","h","e"," ","w","a","i","t","e","d","."," ","N","o","t","h","i","n","g"," ","h","a",
    "p","p","e","n","e","d",".">>

WMinute ==
    <<"m","i","n","u","t","e">>

WHour ==
    <<"h","o","u","r">>

WDay ==
    <<"d","a","y">>

WMinutes ==
    <<" ","m","i","n","u","t","e","s">>

GAide ==
    <<"a","i","d","e">>

GAssistant ==
    <<"a","s","s","i","s","t","a","n","t">>

GStaff ==
    <<"s","t","a","f","f">>

GAttendant ==
    <<"a","t","t","e","n","d","a","n","t">>

----------------------------------------------------------------------------
(* harness/models.py *)

NoLine == 0      \* LintViolation.line_number = None (line numbers are 1-based)

NoLocation == <<>>    \* scene_location = None

BannedPhrases(banned_regex, warn_regex) ==
    [banned_regex |-> banned_regex, warn_regex |-> warn_regex]

----------------------------------------------------------------------------
(* harness/config.py : Settings *)

ProviderAnthropic ==
    <<"a","n","t","h","r","o","p","i","c">>

ProviderOpenAI ==
    <<"o","p","e","n","a","i">>

NoKey == ""     \* the default of both API keys: the empty string

Settings(provider_name, anthropic_api_key, openai_api_key, model_name, max_tokens) ==
    [provider |-> provider_name,
     anthropic_api_key |-> anthropic_api_key,
     openai_api_key |-> openai_api_key,
     model_name |-> model_name,
     max_tokens |-> max_tokens]

\* settings = Settings(), nothing set in .env or in the environment
DefaultSettings == Settings(ProviderAnthropic, NoKey, NoKey, "claude-3-5-sonnet-20241022", 4000)

\* Settings.validate_provider raises ValueError
validate_provider_raises(s) ==
    IF Lower(s.provider) = ProviderAnthropic THEN s.anthropic_api_key = NoKey
    ELSE IF Lower(s.provider) = ProviderOpenAI THEN s.openai_api_key = NoKey
    ELSE TRUE

LintViolation(category, severity, message, line_number, context) ==
    [category |-> category, severity |-> severity, message |-> message,
     line_number |-> line_number, context |-> context]

ContinuityLedger(location_current, who_present, elapsed) ==
    [location_current |-> location_current,
     who_present |-> who_present,
     elapsed_time_since_last_scene |-> elapsed]

----------------------------------------------------------------------------
(* harness/pipelines/draft.py : load_continuity_ledger *)

LocUnknown ==
    <<"U","n","k","n","o","w","n">>

\* the fields of ContinuityLedger declared without a default
RequiredFields ==
    {"location_current", "time_of_day", "date_or_day_count", "elapsed_time_since_last_scene"}

\* state.yaml: keys are the keys of its mapping (none for an empty file); the
\* values of the keys the checkers read, <<>> for an absent key
StateFile(exists, keys, location_current, who_present, elapsed) ==
    [exists |-> exists, keys |-> keys, location_current |-> location_current,
     who_present |-> who_present, elapsed_time_since_last_scene |-> elapsed]

\* the keyword arguments of the fallback call ContinuityLedger(...)
FallbackArguments ==
    StateFile(TRUE,
              {"location_current", "time_of_day", "date_or_day_count",
               "elapsed_time_since_last_scene", "who_present"},
              LocUnknown, <<>>, ElUnknown)

\* if not state_path.exists() ... / data = yaml.safe_load(f) or {}; if not data ...
UsesFallback(file) == ~file.exists \/ file.keys = {}

\* the keyword arguments ContinuityLedger is constructed with
LedgerArguments(file) == IF UsesFallback(file) THEN FallbackArguments ELSE file

\* pydantic raises ValidationError when a field without default is not given
ValidationError(arguments) == ~(RequiredFields \subseteq arguments.keys)

load_continuity_ledger_raises(file) == ValidationError(LedgerArguments(file))

load_continuity_ledger(file) ==
    LET arguments == LedgerArguments(file)
    IN  ContinuityLedger(arguments.location_current, arguments.who_present,
                         arguments.elapsed_time_since_last_scene)

----------------------------------------------------------------------------
(* harness/lint/continuity.py : lint_location_change *)

location_mentioned(txt, ldg) ==
    LET lines == SplitLines(txt)
    IN  \E k \in DOMAIN lines :
            In(Lower(ldg.location_current), Lower(lines[k]))

LongEnoughFrom100(txt) == Len(txt) >= 100

LongEnough(txt) == Len(txt) > 100

LocationViolation(ldg) ==
    LintViolation("continuity", "warning",
                  MsgLocationPrefix \o ldg.location_current \o MsgLocationSuffix,
                  NoLine, CtxLocation)

lint_location_change_either(txt, ldg) ==
    IF ~location_mentioned(txt, ldg) \/ LongEnough(txt)
    THEN <<LocationViolation(ldg)>>
    ELSE <<>>

lint_location_change(txt, ldg) ==
    IF ~location_mentioned(txt, ldg) /\ LongEnough(txt)
    THEN <<LocationViolation(ldg)>>
    ELSE <<>>

----------------------------------------------------------------------------
(* harness/lint/continuity.py : lint_who_present *)

GenericRoles == <<GAide, GAssistant, GStaff, GAttendant>>

\* \b at the position after the first p characters of s
WordBoundary(s, p) ==
    LET before == p >= 1 /\ IsWord(s[p])
        after  == p + 1 <= Len(s) /\ IsWord(s[p + 1])
    IN  before # after

\* rf'\b{re.escape(w)}\b' matches s starting after its first p characters
WordMatchAt(s, p, w) ==
    /\ p + Len(w) <= Len(s)
    /\ SubSeq(s, p + 1, p + Len(w)) = w
    /\ WordBoundary(s, p)
    /\ WordBoundary(s, p + Len(w))

\* len(re.findall(...)): leftmost match at or after p, then on from its end
RECURSIVE FindAllWordFrom(_, _, _)
FindAllWordFrom(s, p, w) ==
    LET starts == { q \in p..Len(s) : WordMatchAt(s, q, w) }
    IN  IF starts = {} THEN 0
        ELSE 1 + FindAllWordFrom(s, IF Len(w) = 0 THEN Min(starts) + 1
                                    ELSE Min(starts) + Len(w), w)

CharacterViolation(character) ==
    LintViolation("continuity", "warning",
                  MsgCharacterPrefix \o character \o MsgCharacterSuffix,
                  NoLine, CtxCharacter)

IsGenericRole(character) == Lower(character) \in Range(GenericRoles)

CharacterMissing(txt, character) ==
    FindAllWordFrom(Lower(txt), 0, Lower(character)) = 0

lint_who_present(txt, ldg) ==
    LET flagged == SelectSeq(ldg.who_present,
                       LAMBDA c : ~IsGenericRole(c) /\ CharacterMissing(txt, c))
    IN  [i \in DOMAIN flagged |-> CharacterViolation(flagged[i])]

----------------------------------------------------------------------------
(* harness/lint/continuity.py : lint_timeline *)

TimeUnits == <<WMinute, WHour, WDay>>

RECURSIVE DigitsEnd(_, _)
DigitsEnd(s, i) ==
    IF i <= Len(s) /\ IsDigit(s[i]) THEN DigitsEnd(s, i + 1) ELSE i

RECURSIVE SpacesEnd(_, _)
SpacesEnd(s, i) ==
    IF i <= Len(s) /\ IsSpace(s[i]) THEN SpacesEnd(s, i + 1) ELSE i

\* (?:minutes?|hours?|days?) with re.IGNORECASE at index k: index after the
\* match, or 0 when there is none
UnitEnd(s, k) ==
    LET ls == Lower(s)
        us == { j \in DOMAIN TimeUnits : StartsWithAt(ls, k, TimeUnits[j]) }
    IN  IF us = {} THEN 0
        ELSE LET e == k + Len(TimeUnits[CHOOSE j \in us : TRUE])
             IN  IF e <= Len(s) /\ ls[e] = "s" THEN e + 1 ELSE e

\* r'(\d+)\s+(?:minutes?|hours?|days?)' matched at index i
TimeMatchAt(s, i) ==
    LET j == DigitsEnd(s, i)
        k == SpacesEnd(s, j)
        e == IF j > i /\ k > j THEN UnitEnd(s, k) ELSE 0
    IN  [ok |-> e > 0, group1 |-> SubSeq(s, i, j - 1), end |-> e]

\* re.search: the leftmost match at or after index i
SearchTimeFrom(s, i) ==
    LET starts == { q \in i..Len(s) : TimeMatchAt(s, q).ok }
    IN  IF starts = {} THEN [ok |-> FALSE, group1 |-> <<>>, end |-> 0]
        ELSE TimeMatchAt(s, Min(starts))

re_search_time(s) == SearchTimeFrom(s, 1)

\* re.findall: non-overlapping matches, left to right, group 1 of each
RECURSIVE FindAllTimeFrom(_, _)
FindAllTimeFrom(s, i) ==
    LET m == SearchTimeFrom(s, i)
    IN  IF ~m.ok THEN <<>>
        ELSE <<m.group1>> \o FindAllTimeFrom(s, m.end)

re_findall_time_first(s) ==
    IF SearchTimeFrom(s, 1).ok THEN <<SearchTimeFrom(s, 1).group1>> ELSE <<>>

re_findall_time(s) == FindAllTimeFrom(s, 1)

ExceedsOrEqual(ref_value, elapsed_value) == ref_value >= elapsed_value * 3

Exceeds(ref_value, elapsed_value) == ref_value > elapsed_value * 3

TimeViolation(time_str, ldg) ==
    LintViolation("continuity", "warning",
                  MsgTimePrefix \o time_str \o MsgTimeSuffix,
                  NoLine, CtxTimePrefix \o ldg.elapsed_time_since_last_scene)

lint_timeline_no_skip(txt, ldg) ==
    LET elapsed_match == re_search_time(ldg.elapsed_time_since_last_scene)
        elapsed_value == IF elapsed_match.ok THEN ParseInt(elapsed_match.group1) ELSE 0
        time_refs == re_findall_time(txt)
        over == SelectSeq(time_refs,
                    LAMBDA r : Exceeds(ParseInt(r), elapsed_value))
    IN  [i \in DOMAIN over |-> TimeViolation(over[i], ldg)]

lint_timeline(txt, ldg) ==
    LET elapsed_match == re_search_time(ldg.elapsed_time_since_last_scene)
    IN  IF elapsed_match.ok
        THEN LET elapsed_value == ParseInt(elapsed_match.group1)
                 time_refs == re_findall_time(txt)
                 over == SelectSeq(time_refs,
                             LAMBDA r : Exceeds(ParseInt(r), elapsed_value))
             IN  [i \in DOMAIN over |-> TimeViolation(over[i], ldg)]
        ELSE <<>>

lint_continuity_collapsed(txt, ldg) ==
    LET all == lint_location_change(txt, ldg) \o lint_who_present(txt, ldg)
                   \o lint_timeline(txt, ldg)
        keep == { n \in DOMAIN all : \A m \in 1..(n - 1) : all[m] # all[n] }
    IN  [i \in 1..Cardinality(keep) |->
            all[CHOOSE n \in keep : Cardinality({ m \in keep : m < n }) = i - 1]]

lint_continuity(txt, ldg) ==
    lint_location_change(txt, ldg) \o lint_who_present(txt, ldg) \o lint_timeline(txt, ldg)

----------------------------------------------------------------------------
(* harness/lore/ingest.py *)

StemAl ==
    <<"a","l">>

StemBo ==
    <<"b","o">>

ExtMd ==
    <<"m","d">>

ExtTxt ==
    <<"t","x","t">>

KeywordAl ==
    <<"A","l">>

KeywordBo ==
    <<"b","o">>

BodyBlank ==
    <<" ","\n">>

BodyLong ==
    <<"a","b","c","\n">>

BodyShort ==
    <<" ","a","b","\n">>

Stars ==
    <<"*","*">>

StarsNewline ==
    <<"*","*","\n">>

Ellipsis ==
    <<".",".",".">>

\* characters in code-point order, for the comparison of file names
CodePointOrder ==
    <<"\t", NL, " ", ".">> \o DigitChars \o UpperChars \o <<"_">> \o LowerChars

CodePoint(c) == CHOOSE i \in DOMAIN CodePointOrder : CodePointOrder[i] = c

RECURSIVE StrLess(_, _)
StrLess(a, b) ==
    IF b = <<>> THEN FALSE
    ELSE IF a = <<>> THEN TRUE
    ELSE IF a[1] # b[1] THEN CodePoint(a[1]) < CodePoint(b[1])
    ELSE StrLess(Tail(a), Tail(b))

FileName(f) == f.stem \o <<".">> \o f.ext

\* sorted(lore_dir.glob("*.<ext>"))
RECURSIVE SortedFiles(_)
SortedFiles(fs) ==
    IF fs = {} THEN <<>>
    ELSE LET first == CHOOSE f \in fs :
                          \A g \in fs \ {f} : StrLess(FileName(f), FileName(g))
         IN  <<first>> \o SortedFiles(fs \ {first})

Glob(dir, ext) == { f \in dir.files : f.ext = ext }

\* str.strip()
Strip(s) ==
    LET keep == { i \in DOMAIN s : ~IsSpace(s[i]) }
    IN  IF keep = {} THEN <<>>
        ELSE SubSeq(s, Min(keep), CHOOSE i \in keep : \A j \in keep : j <= i)

EntriesOf(files) ==
    LET nonEmpty == SelectSeq(files, LAMBDA f : Strip(f.content) # <<>>)
    IN  [i \in DOMAIN nonEmpty |->
            [title |-> nonEmpty[i].stem, content |-> Strip(nonEmpty[i].content)]]

load_lore_entries(dir) ==
    IF ~dir.exists THEN <<>>
    ELSE EntriesOf(SortedFiles(Glob(dir, ExtMd))) \o EntriesOf(SortedFiles(Glob(dir, ExtTxt)))

----------------------------------------------------------------------------
(* harness/lore/retrieve.py : retrieve_lore *)

SampleChars == 1000     \* content[:1000]

RelevanceFloor == 30    \* score > 30

Prefix(s, n) == SubSeq(s, 1, IF n < Len(s) THEN n ELSE Len(s))

Max2(a, b) == IF a >= b THEN a ELSE b

\* the slice s[:n] of Python: a negative n counts from the end
SliceTo(s, n) == IF n >= 0 THEN Prefix(s, n) ELSE Prefix(s, Max2(0, Len(s) + n))

\* fuzz.partial_ratio(a, b)
partial_ratio(a, b) == ratio[<<a, b>>]

RECURSIVE BestScore(_, _, _, _)
BestScore(kws, k, entry, best_score) ==
    IF k > Len(kws) THEN best_score
    ELSE LET title_score == partial_ratio(Lower(kws[k]), Lower(entry.title))
             content_sample == Prefix(entry.content, SampleChars)
             content_score == partial_ratio(Lower(kws[k]), Lower(content_sample))
         IN  BestScore(kws, k + 1, entry, Max2(best_score, Max2(title_score, content_score)))

Scores(kws, entries) ==
    [i \in DOMAIN entries |->
        [score |-> BestScore(kws, 1, entries[i], 0),
         title |-> entries[i].title, content |-> entries[i].content]]

\* where x goes in a list sorted by descending score, ties reversed
InsertBeforeTies(sorted, x) ==
    LET p == Cardinality({ i \in DOMAIN sorted : sorted[i].score > x.score })
    IN  SubSeq(sorted, 1, p) \o <<x>> \o SubSeq(sorted, p + 1, Len(sorted))

\* where x goes in a list sorted by descending score: after its ties
InsertAfterTies(sorted, x) ==
    LET p == Cardinality({ i \in DOMAIN sorted : sorted[i].score >= x.score })
    IN  SubSeq(sorted, 1, p) \o <<x>> \o SubSeq(sorted, p + 1, Len(sorted))

\* scores.sort(key=lambda x: x[0], reverse=True): stable
RECURSIVE SortByScore(_)
SortByScore(scores) ==
    IF scores = <<>> THEN <<>>
    ELSE InsertAfterTies(SortByScore(SubSeq(scores, 1, Len(scores) - 1)),
                         scores[Len(scores)])

\* scores[:top_k]
FirstK(seq, k) == SliceTo(seq, k)

NotBelowZero(score) == score >= 0

AtLeastFloor(score) == score >= RelevanceFloor

AboveFloor(score) == score > RelevanceFloor

SnippetEllipsisAtLimit(title, content, max_chars) ==
    Stars \o title \o StarsNewline \o SliceTo(content, max_chars)
        \o (IF Len(content) >= max_chars THEN Ellipsis ELSE <<>>)

Snippet(title, content, max_chars) ==
    Stars \o title \o StarsNewline \o SliceTo(content, max_chars)
        \o (IF Len(content) > max_chars THEN Ellipsis ELSE <<>>)

retrieve_lore_unsorted(kws, dir, k, max_chars) ==
    LET entries == load_lore_entries(dir)
    IN  IF entries = <<>> THEN <<>>
        ELSE LET scores == Scores(kws, entries)
                 kept == SelectSeq(FirstK(scores, k), LAMBDA e : AboveFloor(e.score))
             IN  [i \in DOMAIN kept |-> Snippet(kept[i].title, kept[i].content, max_chars)]

retrieve_lore(kws, dir, k, max_chars) ==
    LET entries == load_lore_entries(dir)
    IN  IF entries = <<>> THEN <<>>
        ELSE LET scores == SortByScore(Scores(kws, entries))
                 kept == SelectSeq(FirstK(scores, k), LAMBDA e : AboveFloor(e.score))
             IN  [i \in DOMAIN kept |-> Snippet(kept[i].title, kept[i].content, max_chars)]

----------------------------------------------------------------------------
(* Python re: compiled patterns and their matching.  A position p of a string
   s is the number of characters before it (0..Len(s)). *)

Lit(w) == [t |-> "lit", w |-> w]

Cat(xs) == [t |-> "cat", xs |-> xs]

Alt(xs) == [t |-> "alt", xs |-> xs]

Opt(x) == [t |-> "opt", x |-> x]

Star(x) == [t |-> "star", x |-> x]

Plus(cls) == [t |-> "plus", cls |-> cls]

One(cls) == [t |-> "one", cls |-> cls]

B == [t |-> "b"]

SpaceClass == [k |-> "space", cs |-> {}]

WordClass == [k |-> "word", cs |-> {}]

DigitClass == [k |-> "digit", cs |-> {}]

AnyClass == [k |-> "any", cs |-> {}]

CharSet(cs) == [k |-> "set", cs |-> cs]

\* re.compile succeeded
Regex(ci, node) == [ok |-> TRUE, raised |-> "none", ci |-> ci, node |-> node]

\* re.compile raised re.error
RegexError == [ok |-> FALSE, raised |-> "re.error", ci |-> FALSE, node |-> B]

\* re.compile raised OverflowError ("the repetition number is too large"),
\* which is not a subclass of re.error
RegexOverflow == [ok |-> FALSE, raised |-> "OverflowError", ci |-> FALSE, node |-> B]

InClass(c, cls, ci) ==
    CASE cls.k = "space" -> IsSpace(c)
      [] cls.k = "word" -> IsWord(c)
      [] cls.k = "digit" -> IsDigit(c)
      [] cls.k = "any" -> c # NL
      [] cls.k = "set" -> c \in cls.cs \/ (ci /\ \E d \in cls.cs : LowerChar(d) = LowerChar(c))

LitAt(s, p, w, ci) ==
    /\ p + Len(w) <= Len(s)
    /\ \A x \in 1..Len(w) :
        \/ s[p + x] = w[x]
        \/ (ci /\ LowerChar(s[p + x]) = LowerChar(w[x]))

\* the positions where a match of node can end when it starts at a position of P
RECURSIVE Ends(_, _, _, _)
RECURSIVE CatEnds(_, _, _, _, _)
RECURSIVE StarEnds(_, _, _, _)
Ends(node, s, P, ci) ==
    IF P = {} THEN {}
    ELSE CASE node.t = "lit" ->
                { p + Len(node.w) : p \in { q \in P : LitAt(s, q, node.w, ci) } }
           [] node.t = "cat" -> CatEnds(node.xs, 1, s, P, ci)
           [] node.t = "alt" -> UNION { Ends(node.xs[k], s, P, ci) : k \in DOMAIN node.xs }
           [] node.t = "opt" -> P \cup Ends(node.x, s, P, ci)
           [] node.t = "star" -> StarEnds(node.x, s, P, ci)
           [] node.t = "plus" ->
                { q \in 1..Len(s) :
                    \E p \in P : p < q /\ \A x \in (p + 1)..q : InClass(s[x], node.cls, ci) }
           [] node.t = "one" ->
                { p + 1 : p \in { q \in P : q < Len(s) /\ InClass(s[q + 1], node.cls, ci) } }
           [] node.t = "b" -> { p \in P : WordBoundary(s, p) }

CatEnds(xs, k, s, P, ci) ==
    IF k > Len(xs) THEN P
    ELSE CatEnds(xs, k + 1, s, Ends(xs[k], s, P, ci), ci)

StarEnds(x, s, P, ci) ==
    LET Q == P \cup Ends(x, s, P, ci)
    IN  IF Q = P THEN P ELSE StarEnds(x, s, Q, ci)

Positions(s) == 0..Len(s)

\* regex.search(s) is not None
Search(regex, s) == Ends(regex.node, s, Positions(s), regex.ci) # {}

\* regex.search(s).group(0): the leftmost match; the patterns whose match text
\* is used have one possible end for each start
Group0(regex, s) ==
    LET start == Min({ p \in Positions(s) : Ends(regex.node, s, {p}, regex.ci) # {} })
        ends == Ends(regex.node, s, {start}, regex.ci)
    IN  SubSeq(s, start + 1, CHOOSE e \in ends : \A f \in ends : f <= e)

----------------------------------------------------------------------------
(* harness/lore/retrieve.py : extract_keywords *)

keyword_regex_single_space ==
    Regex(FALSE,
          Cat(<<B, One(CharSet(Range(UpperChars))), Plus(CharSet(Range(LowerChars))),
                Star(Cat(<<Lit(<<" ">>), One(CharSet(Range(UpperChars))),
                           Plus(CharSet(Range(LowerChars)))>>)),
                B>>))

\* r'\b[A-Z][a-z]+(?:\s+[A-Z][a-z]+)*\b'
keyword_regex ==
    Regex(FALSE,
          Cat(<<B, One(CharSet(Range(UpperChars))), Plus(CharSet(Range(LowerChars))),
                Star(Cat(<<Plus(SpaceClass), One(CharSet(Range(UpperChars))),
                           Plus(CharSet(Range(LowerChars)))>>)),
                B>>))

\* re.findall(pattern, s) from position p on, for a pattern without groups: the
\* leftmost match, taken as far as it goes (its quantifiers are greedy and each
\* further repetition only lengthens it), then on from its end
RECURSIVE FindAllFrom(_, _, _)
FindAllFrom(regex, s, p) ==
    LET starts == { q \in p..Len(s) : Ends(regex.node, s, {q}, regex.ci) # {} }
    IN  IF starts = {} THEN <<>>
        ELSE LET q == Min(starts)
                 ends == Ends(regex.node, s, {q}, regex.ci)
                 e == CHOOSE x \in ends : \A y \in ends : y <= x
             IN  <<SubSeq(s, q + 1, e)>> \o FindAllFrom(regex, s, IF e > q THEN e ELSE q + 1)

\* tokens = re.findall(...); set(tokens)
extract_keywords(txt) == Range(FindAllFrom(keyword_regex, txt, 0))

\* list(set(tokens)): the elements of the set in some order
ListOf(S) == { order \in [1..Cardinality(S) -> S] : Range(order) = S }

----------------------------------------------------------------------------
(* harness/lint/style.py : the rule tables and the message texts *)

EnDash == "U+2013"    \* the one character U+2013 (en dash), not the hyphen "-"

MsgBanned ==
    <<"B","a","n","n","e","d",":"," ">>

MsgCaution ==
    <<"C","a","u","t","i","o","n",":"," ">>

MsgYou ==
    <<"S","e","c","o","n","d","-","p","e","r","s","o","n"," ","p","r","o","n","o","u","n"," ",
    "'","y","o","u","'"," ","i","n"," ","n","a","r","r","a","t","i","o","n">>

MsgAnthroPrefix ==
    <<"O","b","j","e","c","t"," ","a","n","t","h","r","o","p","o","m","o","r","p","h","i","s",
    "m",":"," ","'">>

MsgAnthroMiddle ==
    <<"'"," ","+"," ","'">>

MsgAnthroSuffix ==
    <<"'">>

MsgLongPrefix ==
    <<"L","o","n","g"," ","d","i","a","l","o","g","u","e"," ","b","l","o","c","k"," ","(">>

MsgLongSuffix ==
    <<" ","l","i","n","e","s",")",":"," ","c","o","n","s","i","d","e","r"," ","b","r","e","a",
    "k","i","n","g"," ","u","p">>

CtxLines ==
    <<"L","i","n","e","s"," ">>

WYou ==
    <<"y","o","u">>

exposition_patterns == <<
    [regex |->
        Regex(TRUE, Cat(<<B, Lit(<<"f","l","a","s","h","b","a","c","k">>), B>>)),
     msg |->
        <<"F","l","a","s","h","b","a","c","k"," ","(","b","r","e","a","k","s"," ","s","c","e","n","e",
        " ","c","o","n","t","a","i","n","m","e","n","t",")">>],
    [regex |->
        Regex(TRUE, Cat(<<Opt(Cat(<<Lit(<<"i","n">>), Plus(SpaceClass)>>)), Opt(Cat(<<Lit(<<"a">>),
          Plus(SpaceClass)>>)), Alt(<<Lit(<<"f","l","a","s","h","b","a","c","k">>),
          Lit(<<"r","e","v","e","r","i","e">>), Lit(<<"m","e","m","o","r","y">>)>>)>>)),
     msg |->
        <<"F","l","a","s","h","b","a","c","k"," ","i","n","s","e","r","t","i","o","n"," ","(","b","r",
        "e","a","k","s"," ","c","o","n","t","a","i","n","m","e","n","t",")">>],
    [regex |->
        Regex(TRUE, Cat(<<Opt(Cat(<<Lit(<<"s","h","e">>), Plus(SpaceClass)>>)),
          Opt(Cat(<<Lit(<<"h","a","d">>), Plus(SpaceClass)>>)), Lit(<<"b","e","e","n">>),
          Plus(SpaceClass), Opt(Cat(<<Lit(<<"t","h","e">>), Plus(SpaceClass)>>)),
          Opt(Cat(<<Lit(<<"t","y","p","e">>), Plus(SpaceClass)>>)),
          Alt(<<Cat(<<Lit(<<"y","e","a","r">>), Opt(Lit(<<"s">>))>>),
          Cat(<<Lit(<<"m","o","n","t","h">>), Opt(Lit(<<"s">>))>>)>>), Plus(SpaceClass),
          Alt(<<Lit(<<"a","g","o">>), Lit(<<"b","e","f","o","r","e">>),
          Lit(<<"e","a","r","l","i","e","r">>)>>)>>)),
     msg |->
        <<"H","i","s","t","o","r","i","c","a","l"," ","e","x","p","o","s","i","t","i","o","n"," ","(",
        "s","t","a","y"," ","i","n"," ","p","r","e","s","e","n","t"," ","m","o","m","e","n","t",
        ")">>],
    [regex |->
        Regex(TRUE, Cat(<<Opt(Cat(<<Lit(<<"t","h","i","s">>), Plus(SpaceClass)>>)),
          Opt(Cat(<<Lit(<<"w","a","s","n","'","t">>), Plus(SpaceClass)>>)),
          Opt(Cat(<<Lit(<<"t","h","e">>), Plus(SpaceClass)>>)), Alt(<<Lit(<<"f","i","r","s","t">>),
          Lit(<<"s","e","c","o","n","d">>), Lit(<<"o","n","l","y">>)>>), Lit(<<"\\">>),
          Plus(CharSet({"s"})), Lit(<<"t","i","m","e","\\">>), Plus(CharSet({"s"})),
          Alt(<<Lit(<<"h","e">>), Lit(<<"s","h","e">>), Lit(<<"t","h","e","y">>)>>)>>)),
     msg |->
        <<"R","e","f","e","r","e","n","c","i","n","g"," ","p","a","s","t"," ","e","v","e","n","t"," ",
        "(","o","n","l","y"," ","i","f"," ","a","c","t","i","v","e","l","y"," ","d","i","s","c",
        "u","s","s","e","d",")">>],
    [regex |->
        Regex(TRUE, Cat(<<Alt(<<Lit(<<"o","n","c","e">>), Lit(<<"w","h","e","n">>)>>), Opt(Lit(<<",">>)),
          Plus(SpaceClass), Alt(<<Cat(<<Lit(<<"y","e","a","r">>), Opt(Lit(<<"s">>))>>),
          Cat(<<Lit(<<"m","o","n","t","h">>), Opt(Lit(<<"s">>))>>), Cat(<<Lit(<<"w","e","e","k">>),
          Opt(Lit(<<"s">>))>>), Cat(<<Lit(<<"d","a","y">>), Opt(Lit(<<"s">>))>>)>>),
          Plus(SpaceClass), Alt(<<Lit(<<"a","g","o">>), Lit(<<"e","a","r","l","i","e","r">>),
          Lit(<<"b","e","f","o","r","e">>)>>)>>)),
     msg |->
        <<"B","a","c","k","s","t","o","r","y"," ","e","x","p","o","s","i","t","i","o","n"," ","(","o",
        "n","l","y"," ","i","f"," ","d","i","a","l","o","g","u","e","-","r","e","l","e","v","a",
        "n","t",")">>],
    [regex |->
        Regex(TRUE, Cat(<<Alt(<<Lit(<<"h","e">>), Lit(<<"s","h","e">>), Lit(<<"t","h","e","y">>)>>),
          Plus(SpaceClass), Opt(Cat(<<Lit(<<"h","a","d">>), Plus(SpaceClass)>>)),
          Alt(<<Lit(<<"o","n","c","e">>), Cat(<<Lit(<<"u","s","e","d">>), Plus(SpaceClass),
          Lit(<<"t","o">>)>>), Lit(<<"a","l","w","a","y","s">>)>>), Plus(SpaceClass),
          Lit(<<"b","e","e","n">>)>>)),
     msg |->
        <<"C","h","a","r","a","c","t","e","r"," ","h","i","s","t","o","r","y"," ","i","n","s","e","r",
        "t","i","o","n"," ","(","k","e","e","p"," ","t","o"," ","p","r","e","s","e","n","t"," ",
        "m","o","m","e","n","t",")">>],
    [regex |->
        Regex(TRUE, Cat(<<Opt(Cat(<<Lit(<<"b","a","c","k">>), Plus(SpaceClass)>>)),
          Alt(<<Lit(<<"w","h","e","n">>), Lit(<<"t","h","e","n">>)>>), Opt(Lit(<<",">>)),
          Plus(SpaceClass), Alt(<<Lit(<<"s","h","e">>), Lit(<<"h","e">>),
          Lit(<<"t","h","e","y">>)>>), Plus(SpaceClass), Alt(<<Lit(<<"h","a","d">>),
          Lit(<<"w","a","s">>), Lit(<<"w","e","r","e">>), Lit(<<"d","i","d">>)>>)>>)),
     msg |->
        <<"P","a","s","t"," ","e","v","e","n","t"," ","s","u","m","m","a","r","y"," ","m","i","d","-",
        "s","c","e","n","e"," ","(","a","v","o","i","d"," ","u","n","l","e","s","s"," ","d","i",
        "a","l","o","g","u","e","-","d","r","i","v","e","n",")">>]
  >>

meta_patterns == <<
    [regex |->
        Regex(TRUE, Cat(<<B, Opt(Cat(<<Lit(<<"t","h","e">>), Plus(SpaceClass)>>)),
          Lit(<<"r","e","a","d","e","r">>), B>>)),
     msg |->
        <<"M","e","t","a","-","n","a","r","r","a","t","i","v","e",":"," ","d","i","r","e","c","t"," ",
        "r","e","f","e","r","e","n","c","e"," ","t","o"," ","r","e","a","d","e","r">>],
    [regex |->
        Regex(TRUE, Cat(<<B, Lit(<<"t","h","e">>), Plus(SpaceClass), Alt(<<Lit(<<"s","t","o","r","y">>),
          Lit(<<"n","a","r","r","a","t","i","v","e">>)>>), B>>)),
     msg |->
        <<"M","e","t","a","-","n","a","r","r","a","t","i","v","e",":"," ","s","t","o","r","y"," ","s",
        "e","l","f","-","r","e","f","e","r","e","n","c","e">>],
    [regex |->
        Regex(TRUE, Cat(<<B, Lit(<<"a","u","t","h","o","r","i","a","l">>), Plus(SpaceClass),
          Alt(<<Lit(<<"i","n","t","e","n","t">>), Lit(<<"v","o","i","c","e">>)>>)>>)),
     msg |->
        <<"M","e","t","a","-","n","a","r","r","a","t","i","v","e",":"," ","a","u","t","h","o","r"," ",
        "c","o","m","m","e","n","t","a","r","y">>],
    [regex |->
        Regex(TRUE, Cat(<<B, Lit(<<"a","s">>), Plus(SpaceClass), Lit(<<"t","h","e">>), Plus(SpaceClass),
          Lit(<<"a","u","t","h","o","r">>), B>>)),
     msg |->
        <<"M","e","t","a","-","n","a","r","r","a","t","i","v","e",":"," ","a","u","t","h","o","r"," ",
        "i","n","t","r","u","s","i","o","n">>],
    [regex |->
        Regex(TRUE, Cat(<<Opt(Cat(<<Lit(<<"t","o">>), Plus(SpaceClass)>>)),
          Alt(<<Lit(<<"b","u","i","l","d">>), Lit(<<"e","s","c","a","l","a","t","e">>),
          Lit(<<"h","e","i","g","h","t","e","n">>), Lit(<<"d","e","e","p","e","n">>)>>),
          Plus(SpaceClass), Opt(Cat(<<Lit(<<"t","h","e">>), Plus(SpaceClass)>>)),
          Lit(<<"t","e","n","s","i","o","n">>)>>)),
     msg |->
        <<"N","a","r","r","a","t","i","v","e"," ","e","x","p","l","a","n","a","t","i","o","n",":"," ",
        "d","o","n","'","t"," ","e","x","p","l","a","i","n"," ","t","e","n","s","i","o","n"," ",
        "m","e","c","h","a","n","i","c","s">>],
    [regex |->
        Regex(TRUE, Cat(<<Opt(Cat(<<Lit(<<"t","h","e">>), Plus(SpaceClass)>>)),
          Alt(<<Lit(<<"m","o","o","d">>), Lit(<<"a","t","m","o","s","p","h","e","r","e">>)>>),
          Plus(SpaceClass), Alt(<<Lit(<<"s","h","i","f","t","s">>),
          Lit(<<"c","h","a","n","g","e","s">>), Lit(<<"d","e","e","p","e","n","s">>),
          Lit(<<"g","r","o","w","s">>)>>)>>)),
     msg |->
        <<"N","a","r","r","a","t","i","v","e"," ","e","x","p","l","a","n","a","t","i","o","n",":"," ",
        "m","o","o","d"," ","s","h","i","f","t"," ","l","a","b","e","l","i","n","g">>],
    [regex |->
        Regex(TRUE, Cat(<<Alt(<<Lit(<<"t","h","i","s">>), Lit(<<"t","h","a","t">>), Lit(<<"i","t">>)>>),
          Plus(SpaceClass), Alt(<<Lit(<<"w","o","u","l","d">>), Lit(<<"c","o","u","l","d">>),
          Lit(<<"s","h","o","u","l","d">>)>>), Plus(SpaceClass),
          Alt(<<Lit(<<"r","e","v","e","a","l">>), Lit(<<"s","h","o","w">>),
          Lit(<<"p","r","o","v","e">>), Lit(<<"d","e","m","o","n","s","t","r","a","t","e">>)>>)>>)),
     msg |->
        <<"N","a","r","r","a","t","i","v","e"," ","e","x","p","l","a","n","a","t","i","o","n",":"," ",
        "e","x","p","l","a","i","n","i","n","g"," ","w","h","a","t"," ","a","c","t","i","o","n",
        " ","m","e","a","n","s">>]
  >>

editorializing_patterns == <<
    [regex |->
        Regex(TRUE, Cat(<<B, Lit(<<"w","o","n">>), B, Opt(Plus(AnyClass)), Alt(<<Lit(<<"o","v","e","r">>),
          Lit(<<"h","e","r">>), Lit(<<"h","i","m">>), Cat(<<Lit(<<"t","h","e">>), Plus(SpaceClass),
          Lit(<<"d","a","y">>)>>), Lit(<<"c","o","n","t","r","o","l">>), Cat(<<Lit(<<"t","h","e">>),
          Plus(SpaceClass), Lit(<<"u","p","p","e","r">>), Plus(SpaceClass),
          Lit(<<"h","a","n","d">>)>>)>>)>>)),
     msg |->
        <<"R","e","l","a","t","i","o","n","a","l"," ","o","u","t","c","o","m","e"," ","n","a","m","e",
        "d",":"," ","'","w","o","n",".",".",".","'">>],
    [regex |->
        Regex(TRUE, Cat(<<B, Alt(<<Lit(<<"v","i","c","t","o","r","y">>),
          Lit(<<"t","r","i","u","m","p","h">>), Lit(<<"s","u","r","r","e","n","d","e","r">>),
          Lit(<<"s","u","b","m","i","s","s","i","o","n">>),
          Lit(<<"d","o","m","i","n","a","n","c","e">>),
          Lit(<<"s","u","b","m","i","s","s","i","o","n">>), Lit(<<"d","e","f","e","a","t">>),
          Lit(<<"c","o","n","q","u","e","s","t">>)>>), B>>)),
     msg |->
        <<"A","b","s","t","r","a","c","t"," ","s","t","a","t","e"," ","n","a","m","e","d"," ","(","s",
        "h","o","w"," ","b","e","h","a","v","i","o","r"," ","i","n","s","t","e","a","d",")">>],
    [regex |->
        Regex(TRUE, Cat(<<Lit(<<"h","e">>), Plus(SpaceClass), Lit(<<"h","a","d">>), Plus(SpaceClass),
          Alt(<<Lit(<<"w","o","n">>), Lit(<<"c","o","n","q","u","e","r","e","d">>),
          Lit(<<"c","a","p","t","u","r","e","d">>), Lit(<<"c","l","a","i","m","e","d">>)>>)>>)),
     msg |->
        <<"R","e","l","a","t","i","o","n","a","l"," ","o","u","t","c","o","m","e"," ","n","a","m","e",
        "d">>],
    [regex |->
        Regex(TRUE, Cat(<<Alt(<<Lit(<<"w","a","s">>), Lit(<<"i","s">>)>>), Plus(SpaceClass),
          Alt(<<Lit(<<"v","i","c","t","o","r","i","o","u","s">>),
          Lit(<<"t","r","i","u","m","p","h","a","n","t">>),
          Lit(<<"d","e","f","e","a","t","e","d">>),
          Lit(<<"c","o","n","q","u","e","r","e","d">>)>>)>>)),
     msg |->
        <<"S","t","a","t","e"," ","n","a","m","e","d"," ","(","a","v","o","i","d"," ","d","i","a","g",
        "n","o","s","i","s",")">>],
    [regex |->
        Regex(TRUE, Cat(<<Lit(<<"t","h","i","s">>), Plus(SpaceClass),
          Alt(<<Lit(<<"r","e","v","e","a","l","e","d">>), Lit(<<"s","h","o","w","e","d">>),
          Lit(<<"p","r","o","v","e","d">>),
          Lit(<<"d","e","m","o","n","s","t","r","a","t","e","d">>)>>), Plus(SpaceClass),
          Alt(<<Lit(<<"t","h","a","t">>), Lit(<<"h","e","r">>), Lit(<<"h","i","s">>),
          Lit(<<"t","h","e">>)>>)>>)),
     msg |->
        <<"N","a","r","r","a","t","i","v","e"," ","e","x","p","l","a","n","a","t","i","o","n",":"," ",
        "e","x","p","l","a","i","n","i","n","g"," ","m","e","a","n","i","n","g">>],
    [regex |->
        Regex(TRUE, Cat(<<Opt(Cat(<<Lit(<<"i","n">>), Plus(SpaceClass)>>)), Lit(<<"t","h">>),
          Alt(<<Cat(<<Lit(<<"i","s">>), Plus(SpaceClass), Lit(<<"m","o","m","e","n","t">>)>>),
          Cat(<<Lit(<<"a","t">>), Plus(SpaceClass), Lit(<<"i","n","s","t","a","n","t">>)>>)>>),
          Opt(Lit(<<",">>)), Plus(SpaceClass), Alt(<<Lit(<<"s","h","e">>), Lit(<<"h","e">>),
          Lit(<<"t","h","e","y">>)>>), Plus(SpaceClass),
          Alt(<<Lit(<<"u","n","d","e","r","s","t","o","o","d">>),
          Lit(<<"r","e","a","l","i","z","e","d">>), Lit(<<"k","n","e","w">>)>>)>>)),
     msg |->
        <<"D","i","a","g","n","o","s","i","s"," ","l","i","n","e",":"," ","r","e","a","l","i","z","i",
        "n","g","/","u","n","d","e","r","s","t","a","n","d","i","n","g">>]
  >>

pov_violations == <<
    [regex |->
        Regex(TRUE, Cat(<<Alt(<<Lit(<<"s","h","e">>), Lit(<<"h","e">>)>>), Plus(SpaceClass),
          Opt(Cat(<<Lit(<<"w","a","s">>), Plus(SpaceClass)>>)), Opt(Cat(<<Lit(<<"t","h","e">>),
          Plus(SpaceClass), Lit(<<"t","y","p","e">>), Plus(SpaceClass)>>)), Alt(<<Lit(<<"o","f">>),
          Lit(<<"t","o">>)>>)>>)),
     msg |->
        <<"C","h","a","r","a","c","t","e","r"," ","s","u","m","m","a","r","y","/","t","y","p","i","n",
        "g"," ","(","b","r","e","a","k","s"," ","P","O","V",")">>],
    [regex |->
        Regex(TRUE, Cat(<<Opt(Cat(<<Lit(<<"i","n">>), Plus(SpaceClass)>>)), Lit(<<"h">>),
          Alt(<<Lit(<<"e","r">>), Lit(<<"i","s">>)>>), Plus(SpaceClass),
          Alt(<<Lit(<<"n","a","t","u","r","e">>), Lit(<<"c","h","a","r","a","c","t","e","r">>),
          Lit(<<"w","a","y">>)>>)>>)),
     msg |->
        <<"C","h","a","r","a","c","t","e","r"," ","s","u","m","m","a","r","y"," ","(","b","r","e","a",
        "k","s"," ","P","O","V",")">>],
    [regex |->
        Regex(TRUE, Cat(<<Alt(<<Lit(<<"l","i","k","e">>), Lit(<<"a","s">>)>>), Plus(SpaceClass),
          Alt(<<Lit(<<"s","h","e">>), Lit(<<"h","e">>)>>), Plus(SpaceClass),
          Alt(<<Lit(<<"a","l","w","a","y","s">>), Lit(<<"u","s","u","a","l","l","y">>),
          Lit(<<"o","f","t","e","n">>)>>), Plus(SpaceClass), Alt(<<Lit(<<"d","i","d">>),
          Lit(<<"w","a","s">>)>>)>>)),
     msg |->
        <<"H","a","b","i","t","u","a","l"," ","s","u","m","m","a","r","y"," ","(","b","r","e","a","k",
        "s"," ","P","O","V",")">>],
    [regex |->
        Regex(TRUE, Cat(<<Lit(<<"s","h","e">>), Plus(SpaceClass), Opt(Cat(<<Lit(<<"h","a","d">>),
          Plus(SpaceClass)>>)), Alt(<<Lit(<<"n","e","v","e","r">>),
          Lit(<<"a","l","w","a","y","s">>)>>), Plus(SpaceClass), Opt(Cat(<<Lit(<<"b","e","e","n">>),
          Plus(SpaceClass)>>)), Opt(Cat(<<Lit(<<"o","n","e">>), Plus(SpaceClass)>>)),
          Lit(<<"t","o">>)>>)),
     msg |->
        <<"C","h","a","r","a","c","t","e","r"," ","t","y","p","i","n","g"," ","(","b","r","e","a","k",
        "s"," ","P","O","V",")">>]
  >>

inanimate_subjects == <<
    <<"s","i","l","e","n","c","e">>,
    <<"r","o","o","m">>,
    <<"l","i","g","h","t">>,
    <<"t","a","b","l","e">>,
    <<"c","h","a","i","r">>,
    <<"d","e","s","k">>,
    <<"p","a","i","n","t","i","n","g">>,
    <<"p","h","o","t","o">>,
    <<"b","o","x">>,
    <<"d","o","o","r">>,
    <<"w","i","n","d","o","w">>,
    <<"v","e","n","t","i","l","a","t","i","o","n">>,
    <<"s","h","o","e","s">>,
    <<"c","l","o","c","k">>,
    <<"m","i","r","r","o","r">>,
    <<"w","a","l","l">>,
    <<"f","l","o","o","r">>,
    <<"c","e","i","l","i","n","g">>,
    <<"a","i","r">>,
    <<"s","p","a","c","e">>,
    <<"s","h","a","d","o","w","s">>,
    <<"f","a","b","r","i","c">>,
    <<"g","l","a","s","s">>,
    <<"m","a","r","b","l","e">>,
    <<"s","t","o","n","e">>,
    <<"w","o","o","d">>
  >>

emotional_verbs == <<
    <<"w","a","t","c","h","e","s">>,
    <<"l","i","s","t","e","n","s">>,
    <<"h","e","a","r","s">>,
    <<"s","e","e","s">>,
    <<"k","n","o","w","s">>,
    <<"r","e","m","e","m","b","e","r","s">>,
    <<"j","u","d","g","e","s">>,
    <<"a","c","c","u","s","e","s">>,
    <<"d","e","m","a","n","d","s">>,
    <<"m","i","r","r","o","r","s">>,
    <<"r","e","f","l","e","c","t","s">>,
    <<"e","c","h","o","e","s">>,
    <<"w","h","i","s","p","e","r","s">>,
    <<"b","r","e","a","t","h","e","s">>,
    <<"h","o","l","d","s">>,
    <<"e","m","b","r","a","c","e","s">>,
    <<"w","a","i","t","s">>
  >>

----------------------------------------------------------------------------
(* Pattern lists and documents handed to the style checker *)

\* reader
PatReader ==
    <<"r","e","a","d","e","r">>

\* (?i)READER
PatReaderAnyCase ==
    <<"(","?","i",")","R","E","A","D","E","R">>

\* (?i)the\s+reader
PatTheReader ==
    <<"(","?","i",")","t","h","e","\\","s","+","r","e","a","d","e","r">>

\* [invalid
PatInvalid ==
    <<"[","i","n","v","a","l","i","d">>

\* a{4294967296}: the repetition count is not below MAXREPEAT
PatOverflow ==
    <<"a","{","4","2","9","4","9","6","7","2","9","6","}">>

\* re.compile(pattern), for the patterns the pattern lists are drawn from
re_compile(pattern) ==
    CASE pattern = PatReader ->
            Regex(FALSE, Lit(<<"r","e","a","d","e","r">>))
      [] pattern = PatReaderAnyCase ->
            Regex(TRUE, Lit(<<"R","E","A","D","E","R">>))
      [] pattern = PatTheReader ->
            Regex(TRUE, Cat(<<Lit(<<"t","h","e">>), Plus(SpaceClass), Lit(<<"r","e","a","d","e","r">>)>>))
      [] pattern = PatInvalid ->
            RegexError
      [] pattern = PatOverflow ->
            RegexOverflow

\* re.search(r'\byou\b', line, re.IGNORECASE)
you_regex ==
    Regex(TRUE, Cat(<<B, Lit(<<"y","o","u">>), B>>))

\* "The Reader, the reader reader": each user pattern matches it more than once
LineReaderTwice ==
    <<"T","h","e"," ","R","e","a","d","e","r",","," ","t","h","e"," ","r","e","a","d","e","r",
    " ","r","e","a","d","e","r">>

LineReader ==
    <<"t","h","e"," ","r","e","a","d","e","r">>

LineReaderCap ==
    <<"T","h","e"," ","R","e","a","d","e","r">>

LineFlashback ==
    <<"a"," ","f","l","a","s","h","b","a","c","k">>

LineYou ==
    <<"y","o","u"," ","w","a","i","t">>

LineYouQuoted ==
    <<"\"","y","o","u","\"">>

LineWon ==
    <<"h","e"," ","h","a","d"," ","w","o","n"," ","h","e","r">>

LineRoom ==
    <<"t","h","e"," ","r","o","o","m"," ","w","a","i","t","s">>

LineNature ==
    <<"i","n"," ","h","e","r"," ","n","a","t","u","r","e">>

LineClean ==
    <<"r","a","i","n"," ","f","e","l","l"," ">>

LineQuote ==
    <<"\"">>

----------------------------------------------------------------------------
(* harness/lint/style.py *)

ContextChars == 120     \* line.strip()[:120]

LongBlock == 10         \* dialogue_lines > 10

StyleViolationWholeLine(severity, message, line_num, line) ==
    LintViolation("style", severity, message, line_num, Strip(line))

StyleViolation(severity, message, line_num, line) ==
    LintViolation("style", severity, message, line_num, Prefix(Strip(line), ContextChars))

RECURSIVE Flatten(_)
Flatten(seqs) == IF seqs = <<>> THEN <<>> ELSE Head(seqs) \o Flatten(Tail(seqs))

\* the numbers (from 1) of the lines where the compiled pattern is found, in order
MatchingLines(regex, lines) ==
    SelectSeq([n \in DOMAIN lines |-> n], LAMBDA n : Search(regex, lines[n]))

\* for pattern, msg in table: for line_num, line in enumerate(lines, 1): ...
TableViolations(table, severity, lines) ==
    Flatten([k \in DOMAIN table |->
        LET hits == MatchingLines(table[k].regex, lines)
        IN  [h \in DOMAIN hits |->
                StyleViolation(severity, table[k].msg, hits[h], lines[hits[h]])]])

PhraseViolationsFirstLine(patterns, severity, label, lines) ==
    Flatten([k \in DOMAIN patterns |->
        LET regex == re_compile(patterns[k])
            hits == IF regex.ok THEN Prefix(MatchingLines(regex, lines), 1) ELSE <<>>
        IN  [h \in DOMAIN hits |->
                StyleViolation(severity, label \o Group0(regex, lines[hits[h]]),
                               hits[h], lines[hits[h]])]])

\* one pattern list of lint_banned_phrases; a pattern that does not compile
\* is reported and adds nothing
PhraseViolations(patterns, severity, label, lines) ==
    Flatten([k \in DOMAIN patterns |->
        LET regex == re_compile(patterns[k])
            hits == IF regex.ok THEN MatchingLines(regex, lines) ELSE <<>>
        IN  [h \in DOMAIN hits |->
                StyleViolation(severity, label \o Group0(regex, lines[hits[h]]),
                               hits[h], lines[hits[h]])]])

\* except re.error: an exception of another class leaves the loop and the function
Uncaught(patterns) ==
    \E k \in DOMAIN patterns : re_compile(patterns[k]).raised \notin {"none", "re.error"}

\* lint_banned_phrases raises instead of returning
lint_banned_phrases_raises(bp) == Uncaught(bp.banned_regex) \/ Uncaught(bp.warn_regex)

lint_banned_phrases(txt, bp) ==
    LET lines == SplitLines(txt)
    IN  PhraseViolations(bp.banned_regex, "error", MsgBanned, lines)
            \o PhraseViolations(bp.warn_regex, "warning", MsgCaution, lines)

lint_scene_containment(txt, loc) ==
    TableViolations(exposition_patterns, "error", SplitLines(txt))

lint_meta_narrative(txt) ==
    TableViolations(meta_patterns, "error", SplitLines(txt))

Count(line, c) == Cardinality({ i \in DOMAIN line : line[i] = c })

likely_dialogue_any_pair(line) ==
    \/ Count(line, "\"") >= 2
    \/ Count(line, "'") >= 2

likely_dialogue(line) ==
    \/ Count(line, "\"") >= 2
    \/ (Count(line, "'") >= 2 /\ "'" \notin Range(Prefix(line, 3)))

lint_pov_and_address(txt) ==
    LET lines == SplitLines(txt)
        hits == SelectSeq([n \in DOMAIN lines |-> n],
                    LAMBDA n : ~likely_dialogue(lines[n]) /\ Search(you_regex, lines[n]))
    IN  [h \in DOMAIN hits |-> StyleViolation("error", MsgYou, hits[h], lines[hits[h]])]

lint_editorializing(txt) ==
    TableViolations(editorializing_patterns, "error", SplitLines(txt))

\* rf'\b{re.escape(noun)}\b\s+(?:\w+\s+)*' : the part of the pattern before the verb
NounPart(noun) ==
    Cat(<<B, Lit(noun), B, Plus(SpaceClass), Star(Cat(<<Plus(WordClass), Plus(SpaceClass)>>))>>)

\* rf'{re.escape(verb)}\b' : the rest of the pattern
VerbPart(verb) == Cat(<<Lit(verb), B>>)

\* for noun: for verb: if re.search(pattern, lower_line), for one line
AnthropomorphismOfLine(line, line_num) ==
    LET lower_line == Lower(line)
    IN  Flatten([a \in DOMAIN inanimate_subjects |->
            LET afterNoun == Ends(NounPart(inanimate_subjects[a]), lower_line,
                                  Positions(lower_line), FALSE)
                verbs == IF afterNoun = {} THEN <<>>
                         ELSE SelectSeq(emotional_verbs,
                                  LAMBDA v : Ends(VerbPart(v), lower_line, afterNoun, FALSE) # {})
            IN  [b \in DOMAIN verbs |->
                    StyleViolation("warning",
                        MsgAnthroPrefix \o inanimate_subjects[a] \o MsgAnthroMiddle
                            \o verbs[b] \o MsgAnthroSuffix,
                        line_num, line)]])

lint_object_anthropomorphism(txt) ==
    LET lines == SplitLines(txt)
    IN  Flatten([n \in DOMAIN lines |-> AnthropomorphismOfLine(lines[n], n)])

LongBlockViolation(dialogue_start, dialogue_lines, line_num) ==
    LintViolation("style", "warning",
                  MsgLongPrefix \o ToDigits(dialogue_lines) \o MsgLongSuffix,
                  dialogue_start,
                  CtxLines \o ToDigits(dialogue_start) \o <<EnDash>> \o ToDigits(line_num - 1))

\* the loop of lint_dialogue_exposition from line line_num on
RECURSIVE DialogueLoop(_, _, _, _, _, _)
DialogueLoop(lines, line_num, in_dialogue, dialogue_start, dialogue_lines, violations) ==
    IF line_num > Len(lines) THEN violations
    ELSE IF "\"" \in Range(lines[line_num])
         THEN IF ~in_dialogue
              THEN DialogueLoop(lines, line_num + 1, TRUE, line_num, 1, violations)
              ELSE DialogueLoop(lines, line_num + 1, TRUE, dialogue_start,
                                dialogue_lines + 1, violations)
         ELSE DialogueLoop(lines, line_num + 1, FALSE, dialogue_start, 0,
                  IF in_dialogue /\ dialogue_lines > LongBlock
                  THEN Append(violations,
                              LongBlockViolation(dialogue_start, dialogue_lines, line_num))
                  ELSE violations)

lint_dialogue_exposition_at_end(txt) ==
    DialogueLoop(SplitLines(txt) \o << <<>> >>, 1, FALSE, 0, 0, <<>>)

lint_dialogue_exposition(txt) ==
    DialogueLoop(SplitLines(txt), 1, FALSE, 0, 0, <<>>)

lint_pov_consistency(txt) ==
    TableViolations(pov_violations, "warning", SplitLines(txt))

KeyLineOnly(v) == v.line_number

Key(v) == <<v.line_number, v.message>>

\* the loop over violations that fills unique_violations
RECURSIVE UniqueLoop(_, _, _, _)
UniqueLoop(violations, i, seen, unique_violations) ==
    IF i > Len(violations) THEN unique_violations
    ELSE IF Key(violations[i]) \notin seen
         THEN UniqueLoop(violations, i + 1, seen \cup {Key(violations[i])},
                         Append(unique_violations, violations[i]))
         ELSE UniqueLoop(violations, i + 1, seen, unique_violations)

AllStyleViolations(txt, bp, loc) ==
    lint_banned_phrases(txt, bp)
        \o lint_scene_containment(txt, loc)
        \o lint_meta_narrative(txt)
        \o lint_pov_and_address(txt)
        \o lint_editorializing(txt)
        \o lint_object_anthropomorphism(txt)
        \o lint_dialogue_exposition(txt)
        \o lint_pov_consistency(txt)

NotDeduplicated(violations) == violations

Deduplicated(violations) == UniqueLoop(violations, 1, {}, <<>>)

\* lint_style calls lint_banned_phrases first, outside any try
lint_style_raises(bp) == lint_banned_phrases_raises(bp)

lint_style(txt, bp, loc) ==
    Deduplicated(AllStyleViolations(txt, bp, loc))

----------------------------------------------------------------------------
(* Inputs of the continuity checker *)

SeqsUpTo(S, n) == UNION { [1..k -> S] : k \in 0..n }

LocationUnits == {UnitLibrary, UnitHall, UnitLowerLibrary, UnitSplitLibrary}

LocationDocs == { Repeat(u, n) : u \in LocationUnits, n \in 0..MaxRepeat }

Locations == {LocLibrary, LocHall, LocSplit, <<>>}

WhoNames == {NameAlice, NameBob, NameAide, NameStaff, NameAideOutside, NameDr}

WhoLists == SeqsUpTo(WhoNames, MaxWho)

WhoDocs == {DocAliceBob, DocAliceOnly, DocBobby, DocAideOutside, DocDr, DocQuiet, <<>>}

Baselines == 0..MaxBaseline \cup {10}

ElapsedOf(n) == ToDigits(n) \o WMinutes

TimeDoc(k) == TimeDocPrefix \o ToDigits(k) \o TimeDocSuffix

TimeDocs ==
    { TimeDoc(k) : k \in 0..(3 * MaxBaseline + 2) \cup {29, 30, 31} }
        \cup {DocTimeMany, DocTimeNone}

ElapsedTimes ==
    { ElapsedOf(n) : n \in Baselines }
        \cup {ElUnknown, ElAbout, ElNoSpace, ElHour, ElDaysLater, <<>>}

\* "She stood alone for 99 minutes in an empty room. "
UnitAlone ==
    <<"S","h","e"," ","s","t","o","o","d"," ","a","l","o","n","e"," ","f","o","r"," ","9","9",
    " ","m","i","n","u","t","e","s"," ","i","n"," ","a","n"," ","e","m","p","t","y"," ","r","o",
    "o","m","."," ">>

\* documents that name neither the location nor a character and give a time
CombinedDocs == { Repeat(UnitAlone, n) : n \in 2..3 }

InitLocation ==
    /\ text \in LocationDocs
    /\ \E loc \in Locations : ledger = ContinuityLedger(loc, <<>>, ElapsedOf(10))

InitWho ==
    /\ text \in WhoDocs
    /\ \E who \in WhoLists : ledger = ContinuityLedger(LocLibrary, who, ElapsedOf(10))

InitTime ==
    /\ text \in TimeDocs
    /\ \E el \in ElapsedTimes : ledger = ContinuityLedger(LocLibrary, <<>>, el)

\* the three checks on one document
InitCombined ==
    /\ text \in CombinedDocs
    /\ \E loc \in {LocLibrary, <<>>}, who \in WhoLists, n \in {10, 33} :
          ledger = ContinuityLedger(loc, who, ElapsedOf(n))

----------------------------------------------------------------------------
(* The continuity checker as a state machine: each call returns its result *)

NoStateFile == state_path = StateFile(FALSE, {}, <<>>, <<>>, <<>>)

NoStyle ==
    /\ banned_phrases = BannedPhrases(<<>>, <<>>)
    /\ scene_location = NoLocation

NoPrompt == [kind |-> "none"]

NoProvider == [kind |-> "none"]

NoGeneration == [kind |-> "none"]

NoExit == -1

Absent == [kind |-> "absent"]

\* the configuration files next to state.yaml
ConfigNames == {"style_rules.yaml", "banned_phrases.yaml"}

\* no pipeline has run, no command has exited, the workspace is not created
NoPipeline ==
    /\ settings = DefaultSettings
    /\ revise_settings = DefaultSettings
    /\ prompt = NoPrompt
    /\ provider = NoProvider
    /\ generated = NoGeneration
    /\ trace = <<>>
    /\ strict = FALSE
    /\ exit_code = NoExit
    /\ config_files = [name \in ConfigNames |-> Absent]
    /\ scenes = <<>>
    /\ outputs = FALSE

inputs == <<text, ledger, state_path, banned_phrases, scene_location, lore_dir, keywords, top_k, max_chars_per_snippet, ratio>>

NoLore ==
    /\ lore_dir = [exists |-> FALSE, files |-> {}]
    /\ keywords = <<>>
    /\ top_k = 0
    /\ max_chars_per_snippet = 1
    /\ ratio = <<>>

LintLocationChange ==
    /\ pc' = "lint_location_change"
    /\ result' = lint_location_change(text, ledger)
    /\ UNCHANGED <<inputs, returned, rest>>

LintWhoPresent ==
    /\ pc' = "lint_who_present"
    /\ result' = lint_who_present(text, ledger)
    /\ UNCHANGED <<inputs, returned, rest>>

LintTimeline ==
    /\ pc' = "lint_timeline"
    /\ result' = lint_timeline(text, ledger)
    /\ UNCHANGED <<inputs, returned, rest>>

LintContinuityTakingNames ==
    /\ pc' = "lint_continuity"
    /\ result' = lint_continuity(text, ledger)
    /\ ledger' = [ledger EXCEPT !.who_present = <<>>]
    /\ UNCHANGED <<text, state_path, banned_phrases, scene_location, lore_dir, keywords,
                   top_k, max_chars_per_snippet, ratio, returned, rest>>

LintContinuity ==
    /\ pc' = "lint_continuity"
    /\ result' = lint_continuity(text, ledger)
    /\ UNCHANGED <<inputs, returned, rest>>

InitContinuity ==
    /\ pc = "init"
    /\ returned = <<>>
    /\ NoPipeline
    /\ result = <<>>
    /\ (InitLocation \/ InitWho \/ InitTime \/ InitCombined)
    /\ NoStateFile
    /\ NoStyle
    /\ NoLore

NextContinuity ==
    \/ LintLocationChange
    \/ LintWhoPresent
    \/ LintTimeline
    \/ LintContinuity

SpecContinuity == InitContinuity /\ [][NextContinuity]_vars

----------------------------------------------------------------------------
(* The lore retriever as a state machine *)

LoreFile(stem, ext, content) == [stem |-> stem, ext |-> ext, content |-> content]

LoreNames == {<<StemAl, ExtMd>>, <<StemBo, ExtMd>>, <<StemAl, ExtTxt>>}

\* the directories that hold at most one file of each name, with these bodies
LoreDirs(names, bodies) ==
    { [exists |-> FALSE, files |-> {}] } \cup
    UNION { { [exists |-> TRUE, files |-> { LoreFile(n[1], n[2], body[n]) : n \in present }] :
                body \in [present -> bodies] } : present \in SUBSET names }

KeywordLists == SeqsUpTo({KeywordAl, KeywordBo}, MaxKeywords)

ScoreValues == {30, 31, 100}

\* the pairs retrieve_lore hands to partial_ratio
Queries(kws, dir) ==
    LET entries == load_lore_entries(dir)
    IN  { <<Lower(kws[k]), Lower(s)>> :
            k \in DOMAIN kws,
            s \in { entries[i].title : i \in DOMAIN entries }
                    \cup { Prefix(entries[i].content, SampleChars) : i \in DOMAIN entries } }

NoContinuity ==
    /\ text = <<>>
    /\ ledger = ContinuityLedger(LocLibrary, <<>>, ElUnknown)
    /\ NoStyle

\* two files, several keywords
InitLoreKeywords ==
    /\ lore_dir \in LoreDirs({<<StemBo, ExtMd>>, <<StemAl, ExtTxt>>}, {BodyBlank, BodyShort})
    /\ keywords \in KeywordLists

\* three files with different bodies, at most one keyword
InitLorePool ==
    /\ lore_dir \in LoreDirs(LoreNames, {BodyBlank, BodyShort, BodyLong})
    /\ keywords \in {<<>>, <<KeywordAl>>}

InitLore ==
    /\ pc = "init"
    /\ returned = <<>>
    /\ NoPipeline
    /\ result = <<>>
    /\ NoContinuity
    /\ NoStateFile
    /\ (InitLoreKeywords \/ InitLorePool)
    /\ top_k \in 0..MaxTopK
    /\ max_chars_per_snippet = 2
    /\ ratio \in [Queries(keywords, lore_dir) -> ScoreValues]

\* any result cap and snippet length, the defaults 8 and 600 among them
TopKs == {-1, 0, 1, 8}

SnippetLengths == {0, 2, 600}

InitLoreAny ==
    /\ pc = "init"
    /\ returned = <<>>
    /\ NoPipeline
    /\ result = <<>>
    /\ NoContinuity
    /\ NoStateFile
    /\ lore_dir \in LoreDirs({<<StemBo, ExtMd>>, <<StemAl, ExtTxt>>},
                              {BodyBlank, BodyShort, BodyLong})
    /\ keywords \in {<<>>, <<KeywordAl>>}
    /\ top_k \in TopKs
    /\ max_chars_per_snippet \in SnippetLengths
    /\ ratio \in [Queries(keywords, lore_dir) -> ScoreValues]

LoadLoreEntries ==
    /\ pc' = "load_lore_entries"
    /\ result' = load_lore_entries(lore_dir)
    /\ UNCHANGED <<inputs, returned, rest>>

RetrieveLore ==
    /\ pc' = "retrieve_lore"
    /\ result' = retrieve_lore(keywords, lore_dir, top_k, max_chars_per_snippet)
    /\ UNCHANGED <<inputs, returned, rest>>

NextLore ==
    \/ LoadLoreEntries
    \/ RetrieveLore

SpecLore == InitLore /\ [][NextLore]_vars

SpecLoreAny == InitLoreAny /\ [][NextLore]_vars

----------------------------------------------------------------------------
(* The style checker as a state machine *)

\* '\n'.join(lines)
RECURSIVE JoinLines(_)
JoinLines(lines) ==
    IF Len(lines) = 1 THEN lines[1]
    ELSE lines[1] \o <<NL>> \o JoinLines(Tail(lines))

StyleLines ==
    {LineReader, LineReaderCap, LineFlashback, LineYou, LineYouQuoted, LineWon,
     LineRoom, LineNature, LineClean, LineQuote, <<>>}

\* lines that the user patterns match, for the documents of several lines
ReaderLines == {LineReader, LineReaderCap}

\* a run of q lines with a quotation mark, followed or not by a line without
DialogueDocs ==
    { JoinLines([i \in 1..n |-> IF i <= q THEN LineQuote ELSE LineClean]) :
        q \in LongBlock..MaxQuoteRun, n \in LongBlock..(MaxQuoteRun + 1) }

ReaderDocs ==
    { JoinLines(ls) : ls \in UNION { [1..n -> ReaderLines] : n \in 1..MaxLines } }

\* a line the patterns match several times, followed by one they do not match
DocReaderTwice == JoinLines(<<LineReaderTwice, LineClean>>)

StyleDocs == StyleLines \cup ReaderDocs \cup DialogueDocs \cup {DocReaderTwice}

UserPatterns == {PatReader, PatReaderAnyCase, PatInvalid}

PatternSets ==
    { BannedPhrases(b, w) : b \in SeqsUpTo(UserPatterns, MaxPatterns),
                            w \in {<<>>, <<PatReader>>} }

\* every document, with no pattern and with the pattern of the test suite
InitStyleDocs ==
    /\ text \in StyleDocs
    /\ banned_phrases \in {BannedPhrases(<<>>, <<>>),
                           BannedPhrases(<<PatTheReader>>, <<PatReader>>)}
    /\ scene_location \in {NoLocation, LocLibrary}

\* lines with and without the word "you", with double and single quotation marks
LineYouSaw ==
    <<"Y","o","u"," ","s","a","w",".">>

LineYouDouble ==
    <<"\"","Y","o","u"," ","g","o",",","\""," ","s","h","e"," ","s","a","i","d",".">>

LineYouOpening ==
    <<"'","Y","o","u"," ","g","o",",","'"," ","s","h","e"," ","s","a","i","d",".">>

LineYouOffset ==
    <<"S","h","e"," ","s","a","i","d",","," ","'","Y","o","u"," ","g","o",".","'">>

LineYouThird ==
    <<"a"," ","'","y","o","u","'">>

LineYouFourth ==
    <<"a","b"," ","'","y","o","u","'">>

LineDontYou ==
    <<"d","o","n","'","t"," ","y","o","u">>

LineYoungYou ==
    <<"y","o","u","n","g"," ","\"","y","o","u">>

LineYourYouth ==
    <<"y","o","u","r"," ","y","o","u","t","h">>

PovLines ==
    {LineYouSaw, LineYouDouble, LineYouOpening, LineYouOffset, LineYouThird,
     LineYouFourth, LineDontYou, LineYoungYou, LineYourYouth}

PovDocs == PovLines \cup { JoinLines(<<a, b>>) : a, b \in PovLines }

InitStylePov ==
    /\ text \in PovDocs
    /\ banned_phrases = BannedPhrases(<<>>, <<>>)
    /\ scene_location = NoLocation

\* q lines with a quotation mark
QuoteRun(q) == [i \in 1..q |-> IF i = 2 THEN LineYouDouble ELSE LineQuote]

\* two runs of quoted lines with one line between them, after a first line or
\* not, up to the last line or followed by a line or by a final newline
RunDocs ==
    { JoinLines(lead \o QuoteRun(q1) \o <<LineClean>> \o QuoteRun(q2) \o tail) :
        lead \in {<<>>, <<LineClean>>},
        q1 \in LongBlock..MaxQuoteRun, q2 \in LongBlock..MaxQuoteRun,
        tail \in {<<>>, <<LineClean>>, << <<>> >>} }

InitStyleDialogue ==
    /\ text \in RunDocs
    /\ banned_phrases = BannedPhrases(<<>>, <<>>)
    /\ scene_location = NoLocation

\* pattern lists with a pattern that re.compile rejects
UncompilableLists ==
    { <<PatInvalid>>, <<PatOverflow>>, <<PatReader, PatOverflow>>,
      <<PatOverflow, PatReader>>, <<PatInvalid, PatReader>>, <<PatReader, PatInvalid>> }

InitStyleUncompilable ==
    /\ text \in {LineReader, LineClean}
    /\ banned_phrases \in
          { BannedPhrases(b, w) : b, w \in UncompilableLists \cup {<<>>, <<PatReader>>} }
    /\ scene_location = NoLocation

\* every pattern list, on the documents its patterns match
InitStylePatterns ==
    /\ text \in ReaderDocs
    /\ banned_phrases \in PatternSets
    /\ scene_location = NoLocation

InitStyle ==
    /\ pc = "init"
    /\ returned = <<>>
    /\ NoPipeline
    /\ result = <<>>
    /\ \/ InitStyleDocs
       \/ InitStylePatterns
       \/ InitStyleUncompilable
       \/ InitStylePov
       \/ InitStyleDialogue
    /\ ledger = ContinuityLedger(LocLibrary, <<>>, ElUnknown)
    /\ NoStateFile
    /\ NoLore

LintBannedPhrasesConsuming ==
    /\ IF lint_banned_phrases_raises(banned_phrases)
       THEN /\ pc' = "OverflowError"
            /\ result' = <<>>
       ELSE /\ pc' = "lint_banned_phrases"
            /\ result' = lint_banned_phrases(text, banned_phrases)
    /\ banned_phrases' = BannedPhrases(<<>>, <<>>)
    /\ UNCHANGED <<text, ledger, state_path, scene_location, lore_dir, keywords,
                   top_k, max_chars_per_snippet, ratio, returned, rest>>

LintBannedPhrases ==
    /\ IF lint_banned_phrases_raises(banned_phrases)
       THEN /\ pc' = "OverflowError"
            /\ result' = <<>>
       ELSE /\ pc' = "lint_banned_phrases"
            /\ result' = lint_banned_phrases(text, banned_phrases)
    /\ UNCHANGED <<inputs, returned, rest>>

LintPovAndAddress ==
    /\ pc' = "lint_pov_and_address"
    /\ result' = lint_pov_and_address(text)
    /\ UNCHANGED <<inputs, returned, rest>>

LintDialogueExposition ==
    /\ pc' = "lint_dialogue_exposition"
    /\ result' = lint_dialogue_exposition(text)
    /\ UNCHANGED <<inputs, returned, rest>>

LintStyle ==
    /\ IF lint_style_raises(banned_phrases)
       THEN /\ pc' = "OverflowError"
            /\ result' = <<>>
       ELSE /\ pc' = "lint_style"
            /\ result' = lint_style(text, banned_phrases, scene_location)
    /\ UNCHANGED <<inputs, returned, rest>>

NextStyle ==
    \/ LintBannedPhrases
    \/ LintPovAndAddress
    \/ LintDialogueExposition
    \/ LintStyle

SpecStyle == InitStyle /\ [][NextStyle]_vars

----------------------------------------------------------------------------
(* A caller that runs the style checks in any order and keeps what they return *)

RunDocuments == {DocReaderTwice, LineYouQuoted}

InitStyleRuns ==
    /\ pc = "init"
    /\ returned = <<>>
    /\ NoPipeline
    /\ result = <<>>
    /\ text \in RunDocuments
    /\ banned_phrases \in {BannedPhrases(<<>>, <<>>), BannedPhrases(<<PatReader>>, <<PatReader>>)}
    /\ scene_location = LocLibrary
    /\ ledger = ContinuityLedger(LocLibrary, <<>>, ElUnknown)
    /\ NoStateFile
    /\ NoLore

\* style_violations = lint_style(...): the caller holds the list the call
\* returned; a call that raised hands nothing over
KeepViolations ==
    /\ pc \notin {"init", "OverflowError"}
    /\ Len(returned) < MaxKept
    /\ returned' = Append(returned, [call |-> pc, violations |-> result])
    /\ UNCHANGED <<pc, result, inputs, rest>>

NextStyleRuns ==
    \/ LintBannedPhrases
    \/ LintPovAndAddress
    \/ LintDialogueExposition
    \/ LintStyle
    \/ KeepViolations

SpecStyleRuns == InitStyleRuns /\ [][NextStyleRuns]_vars

----------------------------------------------------------------------------
(* The checkers and the retriever called one after the other on the same inputs *)

\* a line longer than the context excerpt that ends in "the reader"
LineLong == [i \in 1..(ContextChars + MaxExcess) |-> "x"] \o <<" ">> \o LineReader

OperationDocs ==
    { JoinLines(<<LineClean, LineLong>>),
      JoinLines([i \in 1..(LongBlock + 2) |-> IF i <= LongBlock + 1 THEN LineQuote ELSE LineClean]),
      Repeat(UnitAlone, 3),
      <<>> }

InitOperations ==
    /\ pc = "init"
    /\ returned = <<>>
    /\ NoPipeline
    /\ result = <<>>
    /\ text \in OperationDocs
    /\ ledger \in {ContinuityLedger(LocLibrary, <<NameAlice>>, ElapsedOf(10)),
                   ContinuityLedger(<<>>, <<>>, ElUnknown)}
    /\ scene_location = ledger.location_current
    /\ banned_phrases \in {BannedPhrases(<<>>, <<>>), BannedPhrases(<<PatReader>>, <<PatReader>>)}
    /\ NoStateFile
    /\ lore_dir \in LoreDirs({<<StemBo, ExtMd>>}, {BodyShort})
    /\ keywords = <<KeywordAl>>
    /\ top_k = 1
    /\ max_chars_per_snippet = 2
    /\ ratio \in [Queries(keywords, lore_dir) -> {100}]

NextOperations ==
    \/ LintLocationChange
    \/ LintWhoPresent
    \/ LintTimeline
    \/ LintContinuity
    \/ LintBannedPhrases
    \/ LintPovAndAddress
    \/ LintDialogueExposition
    \/ LintStyle
    \/ LoadLoreEntries
    \/ RetrieveLore

SpecOperations == InitOperations /\ [][NextOperations]_vars

----------------------------------------------------------------------------
(* harness/cli.py : create_workspace, and a user who edits the files *)

NameHe ==
    <<"H","e">>
NamePhoenix ==
    <<"P","h","o","e","n","i","x">>
LocSalonHead ==
    <<"N","o","v","o","-","O","g","a","r","y","o","v","o"," ">>
LocSalonTail ==
    <<" ","p","r","i","v","a","t","e"," ","s","a","l","o","n">>

EmDash == "U+2014"

\* "Novo-Ogaryovo <em dash> private salon"
LocSalon == LocSalonHead \o <<EmDash>> \o LocSalonTail

StarterKeys ==
    {"location_current", "location_previous", "time_of_day", "date_or_day_count",
     "elapsed_time_since_last_scene", "who_present", "transport_last_leg",
     "relationship_elapsed_time", "relationship_last_contact", "relationship_status_note",
     "physical_constraints", "devices_and_objects_in_scene", "scene_goal", "tone_profile"}

\* yaml.dump(starter_state, f)
StarterState ==
    StateFile(TRUE, StarterKeys, LocSalon, <<NameHe, NamePhoenix, NameAideOutside>>,
              ElapsedOf(25))

\* yaml.dump(starter_rules, f), yaml.dump(starter_banned, f)
Starter(name) == [kind |-> "starter", of |-> name]

\* what a user saved, told apart by a revision number
Edited(revision) == [kind |-> "edited", revision |-> revision]

UserStates ==
    { StateFile(TRUE, RequiredFields, LocLibrary, <<>>, ElapsedOf(10)),
      StateFile(TRUE, {}, <<>>, <<>>, <<>>) }

ConfigContents == { Starter(name) : name \in ConfigNames } \cup { Edited(r) : r \in 1..MaxEdits }

create_workspace_always(state, files) ==
    [state_path |-> IF ~state.exists THEN StarterState ELSE state,
     config_files |-> [name \in ConfigNames |-> Starter(name)]]

\* if not state_path.exists(): ...; if not rules_path.exists(): ...;
\* if not banned_path.exists(): ...
create_workspace(state, files) ==
    [state_path |-> IF ~state.exists THEN StarterState ELSE state,
     config_files |-> [name \in ConfigNames |->
                          IF files[name] = Absent THEN Starter(name) ELSE files[name]]]

InitWorkspace ==
    /\ pc = "init"
    /\ returned = <<>>
    /\ result = <<>>
    /\ NoContinuity
    /\ keywords = <<>>
    /\ top_k = 0
    /\ max_chars_per_snippet = 1
    /\ ratio = <<>>
    /\ settings = DefaultSettings
    /\ revise_settings = DefaultSettings
    /\ prompt = NoPrompt
    /\ provider = NoProvider
    /\ generated = NoGeneration
    /\ trace = <<>>
    /\ strict = FALSE
    /\ exit_code = NoExit
    /\ scenes = <<>>
    /\ \/ /\ NoStateFile
          /\ config_files = [name \in ConfigNames |-> Absent]
          /\ lore_dir = [exists |-> FALSE, files |-> {}]
          /\ outputs = FALSE
       \/ /\ state_path \in UserStates
          /\ config_files \in [ConfigNames -> {Absent, Edited(1)}]
          /\ lore_dir \in LoreDirs({<<StemBo, ExtMd>>}, {BodyShort})
          /\ outputs \in BOOLEAN

\* create_workspace(workspace_root), the parent directory being there:
\* the mkdir(exist_ok=True) calls keep what a directory holds
CreateWorkspace ==
    /\ pc' = "create_workspace"
    /\ state_path' = create_workspace(state_path, config_files).state_path
    /\ config_files' = create_workspace(state_path, config_files).config_files
    /\ lore_dir' = [lore_dir EXCEPT !.exists = TRUE]
    /\ outputs' = TRUE
    /\ UNCHANGED <<text, ledger, banned_phrases, scene_location, keywords, top_k,
                   max_chars_per_snippet, ratio, result, returned, configuration, locals,
                   command, scenes>>

\* the user saves a configuration file, or removes it
EditConfigFile ==
    /\ \E name \in ConfigNames, content \in ConfigContents \cup {Absent} :
          /\ content # config_files[name]
          /\ config_files' = [config_files EXCEPT ![name] = content]
    /\ pc' = "edit"
    /\ UNCHANGED <<inputs, result, returned, configuration, locals, command, scenes, outputs>>

\* the user saves state.yaml, or removes it
EditStateFile ==
    /\ \E file \in UserStates \cup {StateFile(FALSE, {}, <<>>, <<>>, <<>>)} :
          /\ file # state_path
          /\ state_path' = file
    /\ pc' = "edit"
    /\ UNCHANGED <<text, ledger, banned_phrases, scene_location, lore_dir, keywords, top_k,
                   max_chars_per_snippet, ratio, result, returned, configuration, locals,
                   command, config_files, scenes, outputs>>

NextWorkspace ==
    \/ CreateWorkspace
    \/ EditConfigFile
    \/ EditStateFile

SpecWorkspace == InitWorkspace /\ [][NextWorkspace]_vars

----------------------------------------------------------------------------
(* harness/cli.py : new_scene, and a user who removes scene files *)

Titles == {"Untitled Scene", "Test Scene"}

\* the scene file: the state summary, then "# Scene <next_num:04d> <em dash> <title>"
SceneFile(next_num, title, ldg) ==
    [number |-> next_num, title |-> title, location |-> ldg.location_current]

\* existing = list(scenes_dir.glob("*.md")); next_num = len(existing) + 1
next_num_of(existing) == Cardinality(DOMAIN existing) + 1

\* with open(scene_path, "w") as f: f.write(state_summary)
WriteScene(existing, number, content) ==
    [n \in DOMAIN existing \cup {number} |-> IF n = number THEN content ELSE existing[n]]

\* a state file whose mapping lacks required fields
StateFileIncomplete == StateFile(TRUE, {"location_current"}, LocLibrary, <<>>, <<>>)

InitScenes ==
    /\ pc = "init"
    /\ returned = <<>>
    /\ NoPipeline
    /\ result = <<>>
    /\ NoContinuity
    /\ NoLore
    /\ state_path \in UserStates \cup {StateFileIncomplete, StateFile(FALSE, {}, <<>>, <<>>, <<>>)}

\* new_scene(title): the file NNNN_scene.md is opened for writing whether or
\* not it is there; an error of the ledger load ends the command before
NewScene ==
    /\ Cardinality(DOMAIN scenes) < MaxScenes
    /\ \E title \in Titles :
          IF load_continuity_ledger_raises(state_path)
          THEN /\ pc' = "Exit"
               /\ exit_code' = 1
               /\ UNCHANGED scenes
          ELSE /\ pc' = "new_scene"
               /\ exit_code' = 0
               /\ scenes' = WriteScene(scenes, next_num_of(scenes),
                                       SceneFile(next_num_of(scenes), title,
                                                 load_continuity_ledger(state_path)))
    /\ UNCHANGED <<inputs, result, returned, configuration, locals, strict, config_files,
                   outputs>>

\* the user removes a scene file
DeleteScene ==
    /\ \E number \in DOMAIN scenes :
          scenes' = [n \in DOMAIN scenes \ {number} |-> scenes[n]]
    /\ pc' = "delete"
    /\ UNCHANGED <<inputs, result, returned, configuration, locals, command, config_files,
                   outputs>>

NextScenes ==
    \/ NewScene
    \/ DeleteScene

SpecScenes == InitScenes /\ [][NextScenes]_vars

----------------------------------------------------------------------------
(* harness/pipelines/revise.py, harness/pipelines/draft.py, the settings
   object they read, and the commands and the UI that call them *)

HeadViolations ==
    <<"#","#"," ","V","I","O","L","A","T","I","O","N","S"," ","T","O"," ","F","I","X",":","\n",
    "\n">>

HeadStyleViolations ==
    <<"#","#","#"," ","S","T","Y","L","E"," ","V","I","O","L","A","T","I","O","N","S",":","\n">>

HeadContinuityViolations ==
    <<"#","#","#"," ","C","O","N","T","I","N","U","I","T","Y"," ","V","I","O","L","A","T","I",
    "O","N","S",":","\n">>

Bullet ==
    <<"-"," ">>

NoViolationsFound ==
    <<"N","o"," ","v","i","o","l","a","t","i","o","n","s"," ","f","o","u","n","d","."," ","L",
    "i","g","h","t"," ","r","e","v","i","s","i","o","n"," ","f","o","r"," ","p","o","l","i","s",
    "h",".","\n">>

\* the grave accent, written as its code point
GraveAccent == "U+0060"

Fence ==
    <<GraveAccent, GraveAccent, GraveAccent>>

SceneHeading ==
    <<"#"," ","S","c","e","n","e"," ">>

ProviderOpenAIMixed ==
    <<"O","p","e","n","A","I">>

ProviderLlama ==
    <<"l","l","a","m","a">>

SceneTitleLine ==
    <<"#"," ","S","c","e","n","e"," ","0","0","0","1">>

KeyAnthropic == "sk-ant-test"

KeyOpenAI == "sk-proj-test"

\* model_name and max_tokens as they are set together
Profiles == { <<"claude-3-5-sonnet-20241022", 4000>>, <<"gpt-4-turbo", 1000>> }

ProviderNames == {ProviderAnthropic, ProviderOpenAIMixed, ProviderLlama}

\* what Settings(...) can be, from the environment, .env and the sidebar
SettingsValues ==
    { Settings(p, a, o, m[1], m[2]) :
        p \in ProviderNames, a \in {NoKey, KeyAnthropic}, o \in {NoKey, KeyOpenAI},
        m \in Profiles }

get_provider_raises(provider_name) ==
    Lower(provider_name) \notin {ProviderAnthropic, ProviderOpenAI}

get_provider(provider_name, api_key, model_name) ==
    [class |-> IF Lower(provider_name) = ProviderAnthropic THEN "AnthropicProvider"
               ELSE "OpenAIProvider",
     api_key |-> api_key,
     model_name |-> model_name]

\* settings.anthropic_api_key or settings.openai_api_key
api_key_or(s) ==
    IF s.anthropic_api_key # NoKey THEN s.anthropic_api_key ELSE s.openai_api_key

\* provider.generate(prompt, max_tokens=...) returned text
Generation(prompt_sent, max_tokens, revised_text) ==
    [prompt |-> prompt_sent, max_tokens |-> max_tokens, text |-> revised_text]

NoResult == [kind |-> "none"]

MessagesOf(violations) == [i \in DOMAIN violations |-> violations[i].message]

\* for v in violations: violations_text += f"- {v}\n"
RECURSIVE Bullets(_)
Bullets(msgs) ==
    IF msgs = <<>> THEN <<>>
    ELSE Bullet \o Head(msgs) \o <<NL>> \o Bullets(Tail(msgs))

violations_text(style_violations, continuity_violations) ==
    HeadViolations
        \o (IF style_violations # <<>>
            THEN HeadStyleViolations \o Bullets(style_violations) \o <<NL>> ELSE <<>>)
        \o (IF continuity_violations # <<>>
            THEN HeadContinuityViolations \o Bullets(continuity_violations) \o <<NL>>
            ELSE <<>>)
        \o (IF style_violations = <<>> /\ continuity_violations = <<>>
            THEN NoViolationsFound ELSE <<>>)

\* the sections of the builder that depend on the arguments; build() joins
\* them under their "## KEY" headings
build_revise_prompt(draft_text, style_violations, continuity_violations, ldg) ==
    [kind |-> "revise",
     CONTINUITY_LEDGER |-> ldg,
     VIOLATIONS |-> violations_text(style_violations, continuity_violations),
     DRAFT_TEXT |-> Fence \o <<NL>> \o draft_text \o <<NL>> \o Fence,
     TASK |-> ldg.location_current]

build_draft_prompt(ldg, seed_text, lore_snippets) ==
    [kind |-> "draft",
     CONTINUITY_LEDGER |-> ldg,
     LORE |-> lore_snippets,
     SEED |-> seed_text,
     TASK |-> ldg.location_current]

\* the lines after the first one that starts with "# Scene ", stripped
extract_seed_text(scene_content) ==
    LET lines == SplitLines(scene_content)
        headings == { i \in DOMAIN lines : StartsWithAt(lines[i], 1, SceneHeading) }
        seed_start == IF headings = {} THEN 0 ELSE Min(headings)
        seed == SubSeq(lines, seed_start + 1, Len(lines))
    IN  IF seed = <<>> THEN <<>> ELSE Strip(JoinLines(seed))

\* a pipeline or a command is not in the middle of a call
Running == {"revise_draft:validate_provider", "revise_draft:generate", "revise_draft:lint",
            "draft_scene:validate_provider", "draft_scene:generate", "draft_scene:lint"}

Idle == pc \notin Running

\* what the provider can answer
GeneratedTexts == {LineClean, LineYou, Repeat(UnitHall, MaxBaseline + 1)}

SceneContents == { JoinLines(<<SceneTitleLine, LineClean>>), LineYou }

DraftTexts == {LineClean, JoinLines(<<LineReader, LineYou>>), Repeat(UnitHall, MaxBaseline + 1)}

LedgerFiles ==
    { StateFile(TRUE, RequiredFields, LocLibrary, <<>>, ElapsedOf(10)), StateFileIncomplete }

\* _apply_settings(s): _cfg.settings = s; the name settings that revise.py
\* imported keeps the object it was bound to
ApplySettings ==
    /\ Idle
    /\ \E s \in SettingsValues :
          /\ s # settings
          /\ settings' = s
    /\ pc' = "_apply_settings"
    /\ UNCHANGED <<inputs, result, returned, revise_settings, locals, command, workspace>>

\* revise_draft, lines 17-32: the ledger, the rules and the banned phrases
\* are loaded, the draft is linted, the prompt is built
RevisePrepare ==
    /\ Idle
    /\ provider' = NoProvider
    /\ generated' = NoGeneration
    /\ result' = NoResult
    /\ exit_code' = NoExit
    /\ IF load_continuity_ledger_raises(state_path)
       THEN /\ pc' = "ValidationError"
            /\ trace' = <<"revise_draft", "load_continuity_ledger">>
            /\ prompt' = NoPrompt
            /\ UNCHANGED ledger
       ELSE /\ ledger' = load_continuity_ledger(state_path)
            /\ IF lint_style_raises(banned_phrases)
               THEN /\ pc' = "OverflowError"
                    /\ trace' = <<"revise_draft", "load_continuity_ledger", "load_style_rules",
                                  "load_banned_phrases", "lint_style">>
                    /\ prompt' = NoPrompt
               ELSE /\ pc' = "revise_draft:validate_provider"
                    /\ trace' = <<"revise_draft", "load_continuity_ledger", "load_style_rules",
                                  "load_banned_phrases", "lint_style", "lint_continuity",
                                  "build_revise_prompt">>
                    /\ prompt' = build_revise_prompt(
                                     text,
                                     MessagesOf(lint_style(text, banned_phrases,
                                                           ledger'.location_current)),
                                     MessagesOf(lint_continuity(text, ledger')),
                                     ledger')
    /\ UNCHANGED <<text, state_path, banned_phrases, scene_location, lore_dir, keywords, top_k,
                   max_chars_per_snippet, ratio, returned, configuration, strict, workspace>>

\* revise_draft, lines 34-39, with the name settings of revise.py
ReviseProvider ==
    /\ pc = "revise_draft:validate_provider"
    /\ IF validate_provider_raises(revise_settings)
       THEN /\ pc' = "ValueError"
            /\ trace' = Append(trace, "validate_provider")
            /\ UNCHANGED provider
       ELSE /\ pc' = "revise_draft:generate"
            /\ trace' = trace \o <<"validate_provider", "get_provider">>
            /\ provider' = get_provider(revise_settings.provider, api_key_or(revise_settings),
                                        revise_settings.model_name)
    /\ UNCHANGED <<inputs, result, returned, configuration, prompt, generated, command,
                   workspace>>

\* revise_draft, line 40: the provider answers, or its client raises
ReviseGenerate ==
    /\ pc = "revise_draft:generate"
    /\ trace' = Append(trace, "generate")
    /\ \/ \E revised_text \in GeneratedTexts :
             /\ generated' = Generation(prompt, revise_settings.max_tokens, revised_text)
             /\ pc' = "revise_draft:lint"
       \/ /\ pc' = "APIError"
          /\ UNCHANGED generated
    /\ UNCHANGED <<inputs, result, returned, configuration, prompt, provider, command,
                   workspace>>

ReviseReturnDraftViolations ==
    /\ pc = "revise_draft:lint"
    /\ pc' = "revise_draft"
    /\ trace' = trace \o <<"lint_style", "lint_continuity">>
    /\ result' = [revised_text |-> generated.text,
                  style_violations |-> lint_style(text, banned_phrases,
                                                  ledger.location_current),
                  continuity_violations |-> lint_continuity(text, ledger)]
    /\ UNCHANGED <<inputs, returned, configuration, prompt, provider, generated, command,
                   workspace>>

\* revise_draft, lines 42-49
ReviseReturn ==
    /\ pc = "revise_draft:lint"
    /\ pc' = "revise_draft"
    /\ trace' = trace \o <<"lint_style", "lint_continuity">>
    /\ result' = [revised_text |-> generated.text,
                  style_violations |-> lint_style(generated.text, banned_phrases,
                                                  ledger.location_current),
                  continuity_violations |-> lint_continuity(generated.text, ledger)]
    /\ UNCHANGED <<inputs, returned, configuration, prompt, provider, generated, command,
                   workspace>>

\* draft_scene, lines 60-80, the scene file holding text
DraftPrepare ==
    /\ Idle
    /\ provider' = NoProvider
    /\ generated' = NoGeneration
    /\ result' = NoResult
    /\ exit_code' = NoExit
    /\ IF load_continuity_ledger_raises(state_path)
       THEN /\ pc' = "ValidationError"
            /\ trace' = <<"draft_scene", "extract_seed_text", "load_continuity_ledger">>
            /\ prompt' = NoPrompt
            /\ UNCHANGED ledger
       ELSE /\ ledger' = load_continuity_ledger(state_path)
            /\ pc' = "draft_scene:validate_provider"
            /\ trace' = <<"draft_scene", "extract_seed_text", "load_continuity_ledger",
                          "load_style_rules", "load_banned_phrases", "extract_keywords",
                          "retrieve_lore", "build_draft_prompt">>
            /\ prompt' = build_draft_prompt(
                             ledger',
                             extract_seed_text(text),
                             retrieve_lore(
                                 ListOf(extract_keywords(extract_seed_text(text) \o <<" ">>
                                                         \o ledger'.location_current)),
                                 lore_dir, top_k, max_chars_per_snippet))
    /\ UNCHANGED <<text, state_path, banned_phrases, scene_location, lore_dir, keywords, top_k,
                   max_chars_per_snippet, ratio, returned, configuration, strict, workspace>>

DraftProviderUnvalidated ==
    /\ pc = "draft_scene:validate_provider"
    /\ IF get_provider_raises(settings.provider)
       THEN /\ pc' = "ValueError"
            /\ trace' = Append(trace, "get_provider")
            /\ UNCHANGED provider
       ELSE /\ pc' = "draft_scene:generate"
            /\ trace' = Append(trace, "get_provider")
            /\ provider' = get_provider(settings.provider, api_key_or(settings),
                                        settings.model_name)
    /\ UNCHANGED <<inputs, result, returned, configuration, prompt, generated, command,
                   workspace>>

\* draft_scene, lines 82-87, with _cfg.settings as it is at the call
DraftProvider ==
    /\ pc = "draft_scene:validate_provider"
    /\ IF validate_provider_raises(settings)
       THEN /\ pc' = "ValueError"
            /\ trace' = Append(trace, "validate_provider")
            /\ UNCHANGED provider
       ELSE /\ pc' = "draft_scene:generate"
            /\ trace' = trace \o <<"validate_provider", "get_provider">>
            /\ provider' = get_provider(settings.provider, api_key_or(settings),
                                        settings.model_name)
    /\ UNCHANGED <<inputs, result, returned, configuration, prompt, generated, command,
                   workspace>>

\* draft_scene, line 88
DraftGenerate ==
    /\ pc = "draft_scene:generate"
    /\ trace' = Append(trace, "generate")
    /\ \/ \E draft_text \in GeneratedTexts :
             /\ generated' = Generation(prompt, settings.max_tokens, draft_text)
             /\ pc' = "draft_scene:lint"
       \/ /\ pc' = "APIError"
          /\ UNCHANGED generated
    /\ UNCHANGED <<inputs, result, returned, configuration, prompt, provider, command,
                   workspace>>

\* draft_scene, lines 90-97: the banned patterns are compiled here first
DraftReturn ==
    /\ pc = "draft_scene:lint"
    /\ IF lint_style_raises(banned_phrases)
       THEN /\ pc' = "OverflowError"
            /\ trace' = Append(trace, "lint_style")
            /\ UNCHANGED result
       ELSE /\ pc' = "draft_scene"
            /\ trace' = trace \o <<"lint_style", "lint_continuity">>
            /\ result' = [draft_text |-> generated.text,
                          style_violations |-> lint_style(generated.text, banned_phrases,
                                                          ledger.location_current),
                          continuity_violations |-> lint_continuity(generated.text, ledger)]
    /\ UNCHANGED <<inputs, returned, configuration, prompt, provider, generated, command,
                   workspace>>

\* the pipeline named by the trace has returned or raised
Finished(pipeline) ==
    /\ Idle
    /\ trace # <<>>
    /\ trace[1] = pipeline
    /\ exit_code = NoExit

\* the exit status of the revise command once revise_draft has returned or
\* raised: the output files are opened in outputs/, which is not created here
revise_exit_ignoring_strict(res, is_strict, outputs_exists) ==
    IF res = NoResult THEN 1
    ELSE IF ~outputs_exists THEN 1
    ELSE IF Len(res.style_violations) > 0 \/ Len(res.continuity_violations) > 0 THEN 1
    ELSE 0

revise_exit(res, is_strict, outputs_exists) ==
    IF res = NoResult THEN 1
    ELSE IF ~outputs_exists THEN 1
    ELSE IF is_strict /\ (Len(res.style_violations) > 0 \/ Len(res.continuity_violations) > 0)
         THEN 1
    ELSE 0

\* revise(draft_file, strict), lines 305-342, the draft file having been read
ReviseExit ==
    /\ Finished("revise_draft")
    /\ exit_code' = revise_exit(result, strict, outputs)
    /\ pc' = "revise"
    /\ UNCHANGED <<inputs, result, returned, configuration, locals, strict, workspace>>

\* draft(scene_file), lines 244-288: output_dir.mkdir(exist_ok=True)
DraftExit ==
    /\ Finished("draft_scene")
    /\ exit_code' = IF result = NoResult THEN 1 ELSE 0
    /\ outputs' = IF result = NoResult THEN outputs ELSE TRUE
    /\ pc' = "draft"
    /\ UNCHANGED <<inputs, result, returned, configuration, locals, strict, config_files,
                   scenes>>

\* settings = Settings() at the import of harness.config: the environment
\* and .env set nothing, one key, both keys, or an unknown provider
ImportSettings ==
    { DefaultSettings,
      Settings(ProviderAnthropic, KeyAnthropic, NoKey, "claude-3-5-sonnet-20241022", 4000),
      Settings(ProviderOpenAIMixed, KeyAnthropic, KeyOpenAI, "gpt-4-turbo", 1000),
      Settings(ProviderLlama, NoKey, NoKey, "claude-3-5-sonnet-20241022", 4000) }

\* the UI: the sidebar replaces the settings, the tabs call the pipelines
InitSettings ==
    /\ pc = "init"
    /\ returned = <<>>
    /\ result = NoResult
    /\ text = LineYou
    /\ state_path \in LedgerFiles
    /\ ledger = ContinuityLedger(<<>>, <<>>, <<>>)
    /\ NoStyle
    /\ NoLore
    /\ settings \in ImportSettings
    /\ revise_settings = settings
    /\ prompt = NoPrompt
    /\ provider = NoProvider
    /\ generated = NoGeneration
    /\ trace = <<>>
    /\ strict = FALSE
    /\ exit_code = NoExit
    /\ config_files = [name \in ConfigNames |-> Absent]
    /\ scenes = <<>>
    /\ outputs = FALSE

NextSettings ==
    \/ ApplySettings
    \/ RevisePrepare
    \/ ReviseProvider
    \/ ReviseGenerate
    \/ ReviseReturn
    \/ DraftPrepare
    \/ DraftProvider
    \/ DraftGenerate
    \/ DraftReturn

SpecSettings == InitSettings /\ [][NextSettings]_vars

\* the command line: draft and revise, the settings being those of the import
CommandSettings ==
    { Settings(ProviderAnthropic, KeyAnthropic, NoKey, "claude-3-5-sonnet-20241022", 4000),
      DefaultSettings }

InitCommands ==
    /\ pc = "init"
    /\ returned = <<>>
    /\ result = NoResult
    /\ text \in DraftTexts \cup SceneContents
    /\ state_path \in LedgerFiles
    /\ ledger = ContinuityLedger(<<>>, <<>>, <<>>)
    /\ banned_phrases \in {BannedPhrases(<<>>, <<>>), BannedPhrases(<<PatReader>>, <<>>)}
    /\ scene_location = NoLocation
    /\ NoLore
    /\ settings \in CommandSettings
    /\ revise_settings = settings
    /\ prompt = NoPrompt
    /\ provider = NoProvider
    /\ generated = NoGeneration
    /\ trace = <<>>
    /\ strict \in BOOLEAN
    /\ exit_code = NoExit
    /\ config_files = [name \in ConfigNames |-> Absent]
    /\ scenes = <<>>
    /\ outputs \in BOOLEAN

NextCommands ==
    \/ RevisePrepare
    \/ ReviseProvider
    \/ ReviseGenerate
    \/ ReviseReturn
    \/ ReviseExit
    \/ DraftPrepare
    \/ DraftProvider
    \/ DraftGenerate
    \/ DraftReturn
    \/ DraftExit

SpecCommands == InitCommands /\ [][NextCommands]_vars

----------------------------------------------------------------------------
(* Loading the ledger, then checking a draft against it *)

LedgerKeys == RequiredFields \cup {"who_present"}

\* state.yaml missing, empty, or a mapping with some of the keys
StateFiles ==
    { StateFile(FALSE, {}, <<>>, <<>>, <<>>) }
        \cup { StateFile(TRUE, keys,
                         IF "location_current" \in keys THEN loc ELSE <<>>,
                         IF "who_present" \in keys THEN who ELSE <<>>,
                         IF "elapsed_time_since_last_scene" \in keys THEN el ELSE <<>>) :
                 keys \in SUBSET LedgerKeys,
                 loc \in {LocLibrary, LocHall},
                 who \in {<<>>, <<NameAlice>>},
                 el \in {ElapsedOf(10), ElUnknown} }

InitLedger ==
    /\ pc = "init"
    /\ returned = <<>>
    /\ NoPipeline
    /\ result = <<>>
    /\ state_path \in StateFiles
    /\ text \in {Repeat(UnitHall, MaxRepeat), DocQuiet}
    /\ ledger = ContinuityLedger(<<>>, <<>>, <<>>)
    /\ NoStyle
    /\ NoLore

\* ledger = load_continuity_ledger(state_path)
LoadContinuityLedger ==
    /\ pc = "init"
    /\ IF load_continuity_ledger_raises(state_path)
       THEN /\ pc' = "ValidationError"
            /\ UNCHANGED ledger
       ELSE /\ pc' = "load_continuity_ledger"
            /\ ledger' = load_continuity_ledger(state_path)
    /\ UNCHANGED <<text, state_path, banned_phrases, scene_location, lore_dir,
                   keywords, top_k, max_chars_per_snippet, ratio, result, returned, rest>>

\* continuity_violations = lint_continuity(draft_text, ledger)
ReviseDraftLint ==
    /\ pc = "load_continuity_ledger"
    /\ pc' = "lint_continuity"
    /\ result' = lint_continuity(text, ledger)
    /\ UNCHANGED <<inputs, returned, rest>>

NextLedger ==
    \/ LoadContinuityLedger
    \/ ReviseDraftLint

SpecLedger == InitLedger /\ [][NextLedger]_vars

----------------------------------------------------------------------------
(* The keyword extractor as a state machine *)

DocScenario ==
    <<"A","l","i","c","e"," ","m","e","t"," ","A","l","i","c","e"," ","i","n"," ","M","o","s",
    "c","o","w"," ","n","e","a","r"," ","M","o","s","c","o","w",".">>

DocDoubleSpace ==
    <<"N","o","v","o"," "," ","O","g","a","r","y","o","v","o">>

DocSingleCapital ==
    <<"I"," ","m","e","t"," ","B">>

DocInsideWord ==
    <<"a","A","l"," ","B","o","_"," ","A","l">>

DocNoCapital ==
    <<"s","h","e"," ","w","a","l","k","e","d"," ","t","o"," ","t","h","e"," ","d","o","o","r",
    ".">>

WordAl ==
    <<"A","l">>

WordBo ==
    <<"B","o">>

WordMet ==
    <<"m","e","t">>

WordBoX ==
    <<"B","o","X">>

KwAlice ==
    <<"A","l","i","c","e">>

KwMoscow ==
    <<"M","o","s","c","o","w">>

KeywordWords == {WordAl, WordBo, WordMet, WordBoX}

Separators == {<<" ">>, <<NL>>, <<".", " ">>}

\* n words, each followed by a separator but the last
RECURSIVE WordDocs(_)
WordDocs(n) ==
    IF n = 1 THEN KeywordWords
    ELSE { d \o sep \o w : d \in WordDocs(n - 1), sep \in Separators, w \in KeywordWords }

KeywordDocs ==
    UNION { WordDocs(n) : n \in 1..MaxWords }
        \cup {DocScenario, DocDoubleSpace, DocSingleCapital, DocInsideWord, DocNoCapital, <<>>}

InitKeywords ==
    /\ pc = "init"
    /\ returned = <<>>
    /\ NoPipeline
    /\ result = <<>>
    /\ text \in KeywordDocs
    /\ ledger = ContinuityLedger(LocLibrary, <<>>, ElUnknown)
    /\ NoStateFile
    /\ NoStyle
    /\ NoLore

ExtractKeywords ==
    /\ pc' = "extract_keywords"
    /\ result' \in ListOf(extract_keywords(text))
    /\ UNCHANGED <<inputs, returned, rest>>

NextKeywords == ExtractKeywords

SpecKeywords == InitKeywords /\ [][NextKeywords]_vars

----------------------------------------------------------------------------
(* Vocabulary of the properties, stated on the document itself *)

MaxNumber == 99      \* largest number written in a document or a ledger

\* s, lower-cased, holds w at index i
HoldsAt(s, i, w) ==
    /\ i >= 1
    /\ i + Len(w) - 1 <= Len(s)
    /\ \A x \in 1..Len(w) : LowerChar(s[i + x - 1]) = w[x]

\* the current location occurs, ignoring case, inside one line of the document
OccursInALine(loc, doc) ==
    /\ NL \notin Range(loc)
    /\ \E i \in 1..(Len(doc) + 1) : HoldsAt(doc, i, Lower(loc))

IsWarningAbout(v, what) ==
    /\ v.category = "continuity"
    /\ v.severity = "warning"
    /\ In(what, v.message)

\* a unit word (minute, hour, day) starts at index k, after whitespace that
\* starts at index j
UnitAfterSpace(s, j, k) ==
    /\ j < k
    /\ \A x \in j..(k - 1) : IsSpace(s[x])
    /\ \E u \in {WMinute, WHour, WDay} : HoldsAt(s, k, u)

\* a number ends just before index j and is followed by whitespace and a unit
NumberEndsBefore(s, j) ==
    /\ j >= 2
    /\ IsDigit(s[j - 1])
    /\ \E k \in (j + 1)..Len(s) : UnitAfterSpace(s, j, k)

\* the field holds a '<number> <unit>' value somewhere
HasTimeValue(s) == \E j \in 2..Len(s) : NumberEndsBefore(s, j)

\* the field begins with a '<number> <unit>' value
BeginsWithTimeValue(s) ==
    \E j \in 2..Len(s) :
        /\ NumberEndsBefore(s, j)
        /\ \A x \in 1..(j - 1) : IsDigit(s[x])

\* the number (as written) that ends just before index j
NumberBefore(s, j) ==
    LET i == Min({ a \in 1..(j - 1) : \A x \in a..(j - 1) : IsDigit(s[x]) })
    IN  SubSeq(s, i, j - 1)

\* the value a digit string denotes
Denotes(ds, v) ==
    \E z \in 0..(Len(ds) - 1) :
        /\ \A x \in 1..z : ds[x] = "0"
        /\ SubSeq(ds, z + 1, Len(ds)) = ToDigits(v)

ValueOf(ds) == CHOOSE v \in 0..MaxNumber : Denotes(ds, v)

RECURSIVE Ascending(_)
Ascending(S) == IF S = {} THEN <<>> ELSE <<Min(S)>> \o Ascending(S \ {Min(S)})

\* the numbers of the '<number> <unit>' occurrences of the document that
\* exceed three times the baseline, in document order
OffendingNumbers(doc) ==
    LET baselineEnd == Min({ j \in 2..Len(ledger.elapsed_time_since_last_scene) :
                               NumberEndsBefore(ledger.elapsed_time_since_last_scene, j) })
        baseline == ValueOf(NumberBefore(ledger.elapsed_time_since_last_scene, baselineEnd))
        ends == { j \in 2..Len(doc) :
                    /\ NumberEndsBefore(doc, j)
                    /\ ValueOf(NumberBefore(doc, j)) > 3 * baseline }
        order == Ascending(ends)
    IN  [n \in DOMAIN order |-> NumberBefore(doc, order[n])]

----------------------------------------------------------------------------
(* C5: lint_location_change returns exactly one warning when the current
   location occurs, ignoring case, in no line of the document and the document
   has more than 100 characters; otherwise it returns nothing.  In particular
   it returns nothing for a document shorter than 100 characters. *)
LocationChangeLaw ==
    pc = "lint_location_change" =>
        /\ IF ~OccursInALine(ledger.location_current, text) /\ Len(text) > 100
           THEN Len(result) = 1 /\ IsWarningAbout(result[1], ledger.location_current)
           ELSE result = <<>>
        /\ (Len(text) < 100 => result = <<>>)

LocationChangeFires ==
    /\ pc = "lint_location_change"
    /\ ~OccursInALine(ledger.location_current, text)
    /\ Len(text) > 100
    /\ Len(result) = 1

(* C6 as stated: with location_current "Library", the continuity check returns
   nothing on "She sat in the Library. " * 3 and one warning mentioning
   "Library" on "He walked down the hall. " * 3. *)
LibraryScenarioAsStated ==
    (pc = "lint_continuity" /\ ledger.location_current = LocLibrary
        /\ ledger.who_present = <<>>) =>
        /\ (text = Repeat(UnitLibrary, 3) => result = <<>>)
        /\ (text = Repeat(UnitHall, 3) =>
                Len(result) = 1 /\ IsWarningAbout(result[1], LocLibrary))

(* C6 amended: with location_current "Library" (nobody listed as present), the
   continuity check returns nothing on "She sat in the Library. " * 3, nothing
   on "He walked down the hall. " * 3 (75 characters, not more than 100), and
   one warning mentioning "Library" on "He walked down the hall. " * 5. *)
LibraryScenario ==
    (pc = "lint_continuity" /\ ledger.location_current = LocLibrary
        /\ ledger.who_present = <<>>) =>
        /\ (text = Repeat(UnitLibrary, 3) => result = <<>>)
        /\ (text = Repeat(UnitHall, 3) => result = <<>>)
        /\ (text = Repeat(UnitHall, 5) =>
                Len(result) = 1 /\ IsWarningAbout(result[1], LocLibrary))

LibraryScenarioShortHall ==
    /\ pc = "lint_continuity"
    /\ ledger.location_current = LocLibrary
    /\ ledger.who_present = <<>>
    /\ text = Repeat(UnitHall, 3)
    /\ result = <<>>

(* C7: with baseline N in the elapsed-time field, a document whose time
   reference is exactly 3N gets no violation and one whose time reference is
   3N+1 gets a violation. *)
TimelineRatio ==
    pc = "lint_timeline" =>
        \A n \in Baselines :
            ledger.elapsed_time_since_last_scene = ElapsedOf(n) =>
                /\ (text = TimeDoc(3 * n) => result = <<>>)
                /\ (text = TimeDoc(3 * n + 1) =>
                        Len(result) = 1 /\ IsWarningAbout(result[1], ToDigits(3 * n + 1)))

TimelineRatioBeyond ==
    /\ pc = "lint_timeline"
    /\ \E n \in Baselines :
        /\ ledger.elapsed_time_since_last_scene = ElapsedOf(n)
        /\ text = TimeDoc(3 * n + 1)
    /\ Len(result) = 1

(* C8 as stated: if the elapsed-time field does not begin with a
   '<number> <unit>' value, lint_timeline returns nothing for any document. *)
TimelineSkipsUnlessLeading ==
    (pc = "lint_timeline"
        /\ ~BeginsWithTimeValue(ledger.elapsed_time_since_last_scene)) =>
        result = <<>>

(* C8 amended: if the elapsed-time field holds no '<number> <unit>' value
   anywhere, lint_timeline returns nothing for any document. *)
TimelineSkipsWithoutValue ==
    (pc = "lint_timeline" /\ ~HasTimeValue(ledger.elapsed_time_since_last_scene)) =>
        result = <<>>

TimelineSkipped ==
    /\ pc = "lint_timeline"
    /\ ~HasTimeValue(ledger.elapsed_time_since_last_scene)
    /\ HasTimeValue(text)
    /\ result = <<>>

(* C9: given a baseline, lint_timeline returns one warning for each
   '<number> <unit>' occurrence of the document whose number is greater than
   three times the baseline, in document order, whatever the units, repeated
   references included. *)
TimelineOnePerReference ==
    (pc = "lint_timeline" /\ HasTimeValue(ledger.elapsed_time_since_last_scene)) =>
        LET nums == OffendingNumbers(text)
        IN  /\ Len(result) = Len(nums)
            /\ \A n \in DOMAIN nums :
                /\ result[n].category = "continuity"
                /\ result[n].severity = "warning"
                /\ result[n].message = MsgTimePrefix \o nums[n] \o MsgTimeSuffix

TimelineRepeatedReference ==
    /\ pc = "lint_timeline"
    /\ HasTimeValue(ledger.elapsed_time_since_last_scene)
    /\ \E a, b \in DOMAIN result : a < b /\ result[a].message = result[b].message

\* the name occurs in the document, ignoring case, as a whole word: not
\* preceded and not followed by a word character
OccursAsWord(name, doc) ==
    \E p \in 0..(Len(doc) - Len(name)) :
        /\ HoldsAt(doc, p + 1, Lower(name))
        /\ (p = 0 \/ ~IsWord(doc[p]))
        /\ (p + Len(name) = Len(doc) \/ ~IsWord(doc[p + Len(name) + 1]))

MissingCharacters(doc) ==
    SelectSeq(ledger.who_present,
              LAMBDA c : /\ Lower(c) \notin {GAide, GAssistant, GStaff, GAttendant}
                         /\ ~OccursAsWord(c, doc))

(* C10: lint_who_present returns one warning for each entry of who_present
   that is not a generic role token (aide, assistant, staff, attendant, in any
   case) and that has no whole-word occurrence in the document, ignoring case,
   in list order; it returns nothing for a generic token or for a name that
   occurs. *)
WhoPresentLaw ==
    pc = "lint_who_present" =>
        LET missing == MissingCharacters(text)
        IN  /\ Len(result) = Len(missing)
            /\ \A n \in DOMAIN missing : IsWarningAbout(result[n], missing[n])

----------------------------------------------------------------------------
(* Vocabulary of the retrieval properties *)

\* the best score of an entry: the largest score any keyword gets against its
\* title or its body, 0 without keywords
EntryScore(entry) ==
    LET got == { ratio[<<Lower(keywords[k]), Lower(entry.title)>>] : k \in DOMAIN keywords }
                 \cup { ratio[<<Lower(keywords[k]), Lower(entry.content)>>] : k \in DOMAIN keywords }
    IN  IF got = {} THEN 0 ELSE CHOOSE x \in got : \A y \in got : y <= x

PoolScores(pool) == [i \in DOMAIN pool |-> EntryScore(pool[i])]

PoolSnippets(pool) ==
    [i \in DOMAIN pool |-> Snippet(pool[i].title, pool[i].content, max_chars_per_snippet)]

Occurrences(seq, x) == Cardinality({ n \in DOMAIN seq : seq[n] = x })

\* the pool entries ordered by descending score, equal scores in load order:
\* the entry at each rank
Ranking(score) ==
    LET rankOf(i) == 1 + Cardinality({ j \in DOMAIN score :
                                         \/ score[j] > score[i]
                                         \/ (score[j] = score[i] /\ j < i) })
    IN  [r \in DOMAIN score |-> CHOOSE i \in DOMAIN score : rankOf(i) = r]

(* C3: retrieve_lore returns at most top_k snippets, and returns a snippet
   only for pool entries whose best score is above 30: no snippet is returned
   more often than there are such entries with that snippet. *)
ThresholdLaw ==
    pc = "retrieve_lore" =>
        LET pool == load_lore_entries(lore_dir)
            score == PoolScores(pool)
            snippet == PoolSnippets(pool)
        IN  /\ Len(result) <= top_k
            /\ \A n \in DOMAIN result :
                Occurrences(result, result[n]) <=
                    Cardinality({ i \in DOMAIN pool :
                                    snippet[i] = result[n] /\ score[i] > 30 })

ThresholdDropsEntry ==
    /\ pc = "retrieve_lore"
    /\ result # <<>>
    /\ Len(load_lore_entries(lore_dir)) <= top_k
    /\ \E i \in DOMAIN load_lore_entries(lore_dir) :
            EntryScore(load_lore_entries(lore_dir)[i]) = 30

(* C4: the snippets retrieve_lore returns follow the order of the pool by
   descending score, entries of equal score in load order: the result lists
   the snippets of some of the ranks, in rank order. *)
DescendingStableOrder ==
    pc = "retrieve_lore" =>
        LET pool == load_lore_entries(lore_dir)
            snippet == PoolSnippets(pool)
            ranked == Ranking(PoolScores(pool))
        IN  \E ranks \in SUBSET DOMAIN pool :
                LET order == Ascending(ranks)
                IN  result = [n \in DOMAIN order |-> snippet[ranked[order[n]]]]

TiedEntriesReturned ==
    /\ pc = "retrieve_lore"
    /\ Len(result) = 3
    /\ LET pool == load_lore_entries(lore_dir)
           score == PoolScores(pool)
           snippet == PoolSnippets(pool)
       IN  /\ \E i, j \in DOMAIN pool : i < j /\ score[i] = score[j] /\ snippet[i] # snippet[j]
           /\ \E i, j \in DOMAIN pool : score[i] > score[j]

----------------------------------------------------------------------------
(* The style checker *)

\* two violations with the same line number and the same message
SamePair(v, w) == v.line_number = w.line_number /\ v.message = w.message

\* what the eight sub-checkers return on the document, one after the other
EightOutputs ==
    lint_banned_phrases(text, banned_phrases)
        \o lint_scene_containment(text, scene_location)
        \o lint_meta_narrative(text)
        \o lint_pov_and_address(text)
        \o lint_editorializing(text)
        \o lint_object_anthropomorphism(text)
        \o lint_dialogue_exposition(text)
        \o lint_pov_consistency(text)

\* the positions of a list whose pair occurs at no earlier position
FirstOccurrences(list) ==
    { n \in DOMAIN list : \A m \in 1..(n - 1) : ~SamePair(list[m], list[n]) }

(* C1: the list lint_style returns holds no two violations with the same
   line number and the same message, whatever the document and the banned
   and warn pattern lists. *)
DedupLaw ==
    pc = "lint_style" =>
        \A a, b \in DOMAIN result : a < b => ~SamePair(result[a], result[b])

\* lint_style returned on a document where two sub-checker violations share
\* their line number and their message
DuplicateCollapsed ==
    /\ pc = "lint_style"
    /\ LET all == EightOutputs
       IN  /\ FirstOccurrences(all) # DOMAIN all
           /\ Len(result) >= 2

(* C2: lint_style returns the outputs of the eight sub-checkers, in the
   order banned/warn, scene containment, meta-narrative, POV/address,
   editorializing, anthropomorphism, dialogue length, POV consistency, less
   every violation whose (line number, message) pair occurs earlier in that
   concatenation: each pair once, at its first occurrence, none lost. *)
FirstSeenOrder ==
    pc = "lint_style" =>
        LET all == EightOutputs
            order == Ascending(FirstOccurrences(all))
        IN  result = [n \in DOMAIN order |-> all[order[n]]]

\* lint_style returned on a document where a repeated pair is followed by a
\* new one and then occurs again, with violations of three sub-checkers or more
RepeatedPairAfterNewOne ==
    /\ pc = "lint_style"
    /\ LET all == EightOutputs
       IN  \E a, b, c \in DOMAIN all :
              /\ a < b /\ b < c
              /\ SamePair(all[a], all[c])
              /\ ~SamePair(all[a], all[b])
              /\ \E d \in DOMAIN all : all[d].severity # all[a].severity

----------------------------------------------------------------------------
(* The continuity checker as a whole *)

(* C11: lint_continuity returns the violations of the location check, then
   those of the presence check, then those of the timeline check, each check
   run whatever the others found and nothing removed: equal violations are
   all kept and the length is the sum of the three lengths. *)
AggregationLaw ==
    pc = "lint_continuity" =>
        LET location == lint_location_change(text, ledger)
            presence == lint_who_present(text, ledger)
            timeline == lint_timeline(text, ledger)
        IN  /\ Len(result) = Len(location) + Len(presence) + Len(timeline)
            /\ SubSeq(result, 1, Len(location)) = location
            /\ SubSeq(result, Len(location) + 1, Len(location) + Len(presence)) = presence
            /\ SubSeq(result, Len(location) + Len(presence) + 1, Len(result)) = timeline

\* lint_continuity returned with violations of the three checks, two of them equal
AggregatedWithEqualViolations ==
    /\ pc = "lint_continuity"
    /\ lint_location_change(text, ledger) # <<>>
    /\ lint_who_present(text, ledger) # <<>>
    /\ lint_timeline(text, ledger) # <<>>
    /\ \E a, b \in DOMAIN result : a < b /\ result[a] = result[b]

----------------------------------------------------------------------------
(* The banned and warn pattern lists *)

\* the pattern compiles
IsValidPattern(pattern) == re_compile(pattern).ok

\* the (pattern position, line number) pairs of a list where the pattern is
\* valid and matches the line
MatchedPairs(patterns, lines) ==
    { kn \in (DOMAIN patterns) \X (DOMAIN lines) :
        /\ IsValidPattern(patterns[kn[1]])
        /\ Search(re_compile(patterns[kn[1]]), lines[kn[2]]) }

\* severity, message and line number a matched pair is reported with
Reported(patterns, severity, label, lines, kn) ==
    <<severity, label \o Group0(re_compile(patterns[kn[1]]), lines[kn[2]]), kn[2]>>

ReportOf(v) == <<v.severity, v.message, v.line_number>>

\* the positions of a line where a match of the pattern starts
MatchStarts(pattern, line) ==
    { p \in Positions(line) :
        Ends(re_compile(pattern).node, line, {p}, re_compile(pattern).ci) # {} }

(* C12: lint_banned_phrases reports each valid banned pattern on each line it
   matches exactly once, as an error 'Banned: <matched text>' with the line's
   number from 1, and each valid warn pattern on each line it matches exactly
   once, as a warning 'Caution: <matched text>'; nothing else is reported,
   however often a pattern matches within a line. *)
OnePerPatternAndLine ==
    pc = "lint_banned_phrases" =>
        LET lines == SplitLines(text)
            banned == banned_phrases.banned_regex
            warn == banned_phrases.warn_regex
            errors == MatchedPairs(banned, lines)
            warnings == MatchedPairs(warn, lines)
            reports == { ReportOf(result[i]) : i \in DOMAIN result }
                         \cup { Reported(banned, "error", MsgBanned, lines, kn) : kn \in errors }
                         \cup { Reported(warn, "warning", MsgCaution, lines, kn) : kn \in warnings }
        IN  /\ \A i \in DOMAIN result : result[i].category = "style"
            /\ \A r \in reports :
                 Cardinality({ i \in DOMAIN result : ReportOf(result[i]) = r })
                   = Cardinality({ kn \in errors :
                                     Reported(banned, "error", MsgBanned, lines, kn) = r })
                       + Cardinality({ kn \in warnings :
                                     Reported(warn, "warning", MsgCaution, lines, kn) = r })

\* lint_banned_phrases returned one error and one warning for a line that the
\* banned and the warn pattern match more than once, and nothing for the next line
MatchedTwiceReportedOnce ==
    /\ pc = "lint_banned_phrases"
    /\ Len(result) = 2
    /\ LET lines == SplitLines(text)
       IN  /\ Len(lines) = 2
           /\ \E k \in DOMAIN banned_phrases.banned_regex :
                 Cardinality(MatchStarts(banned_phrases.banned_regex[k], lines[1])) >= 2
           /\ \E k \in DOMAIN banned_phrases.warn_regex :
                 Cardinality(MatchStarts(banned_phrases.warn_regex[k], lines[1])) >= 2

----------------------------------------------------------------------------
(* Patterns that do not compile *)

\* a pattern list without its patterns that re.compile rejects
WithoutMalformed(patterns) == SelectSeq(patterns, IsValidPattern)

(* C13: a pattern of the banned or warn list that is not a valid regular
   expression never makes lint_banned_phrases or lint_style fail: the call
   returns, and returns what it returns for the two lists without their
   malformed patterns. *)
MalformedPatternSkipped ==
    pc # "init" =>
        LET valid == BannedPhrases(WithoutMalformed(banned_phrases.banned_regex),
                                   WithoutMalformed(banned_phrases.warn_regex))
        IN  \/ pc = "lint_banned_phrases" /\ result = lint_banned_phrases(text, valid)
            \/ pc = "lint_style" /\ result = lint_style(text, valid, scene_location)

----------------------------------------------------------------------------
(* Second person in narration *)

\* the line contains "you" in any case, with no word character next to it
HasWordYou(line) ==
    \E i \in 1..(Len(line) - 2) :
        /\ Lower(SubSeq(line, i, i + 2)) = <<"y", "o", "u">>
        /\ (i = 1 \/ ~IsWord(line[i - 1]))
        /\ (i + 2 = Len(line) \/ ~IsWord(line[i + 3]))

Marks(line, c) == { i \in DOMAIN line : line[i] = c }

\* two double quotes, or two single quotes none of which is among the first
\* three characters
IsDialogue(line) ==
    \/ Cardinality(Marks(line, "\"")) >= 2
    \/ /\ Cardinality(Marks(line, "'")) >= 2
       /\ \A i \in Marks(line, "'") : i > 3

\* the numbers of the lines with the word "you" outside dialogue
AddressedLines(doc) ==
    LET lines == SplitLines(doc)
    IN  { n \in DOMAIN lines : HasWordYou(lines[n]) /\ ~IsDialogue(lines[n]) }

(* C14: lint_pov_and_address returns one error for a line if and only if the
   line contains the whole word 'you', in any case, and is not dialogue: a
   line is dialogue iff it has two double quotes or more, or two single quotes
   or more and none within its first three characters. The errors follow the
   line order. *)
SecondPersonLaw ==
    pc = "lint_pov_and_address" =>
        LET order == Ascending(AddressedLines(text))
        IN  /\ Len(result) = Len(order)
            /\ \A n \in DOMAIN order :
                 /\ result[n].severity = "error"
                 /\ result[n].line_number = order[n]
                 /\ result[n].message = MsgYou

\* lint_pov_and_address flagged a line that opens with a single quote and
\* passed the line after it, where narration precedes the quoted speech
OpeningQuoteFlagged ==
    /\ pc = "lint_pov_and_address"
    /\ Len(result) = 1
    /\ result[1].line_number = 1
    /\ LET lines == SplitLines(text)
       IN  /\ Len(lines) = 2
           /\ lines[1][1] = "'"
           /\ HasWordYou(lines[2])
           /\ Cardinality(Marks(lines[2], "'")) >= 2
           /\ Cardinality(Marks(lines[2], "\"")) = 0

----------------------------------------------------------------------------
(* Long runs of quoted lines *)

HasQuote(line) == \E i \in DOMAIN line : line[i] = "\""

\* the maximal runs a..b of lines with a quotation mark that are longer than 10
\* lines and are followed by a line without one
LongRuns(lines) ==
    { ab \in (DOMAIN lines) \X (DOMAIN lines) :
        /\ ab[1] <= ab[2]
        /\ \A i \in ab[1]..ab[2] : HasQuote(lines[i])
        /\ (ab[1] = 1 \/ ~HasQuote(lines[ab[1] - 1]))
        /\ ab[2] < Len(lines)
        /\ ~HasQuote(lines[ab[2] + 1])
        /\ ab[2] - ab[1] + 1 > 10 }

\* a run of lines with a quotation mark up to the last line of the document
RunToTheEnd(lines, n) ==
    /\ n <= Len(lines)
    /\ \A i \in (Len(lines) - n + 1)..Len(lines) : HasQuote(lines[i])

(* C15: lint_dialogue_exposition returns exactly one warning for each maximal
   run of consecutive lines with a double quote that is longer than 10 lines
   and is followed by a line without one, in document order: its line number
   is the run's first line, its message gives the run's length and its context
   the span from the first to the last line of the run. A run of 10 lines or
   fewer, and a run that reaches the last line, give nothing. *)
LongRunLaw ==
    pc = "lint_dialogue_exposition" =>
        LET lines == SplitLines(text)
            runs == LongRuns(lines)
            order == Ascending({ ab[1] : ab \in runs })
        IN  /\ Len(result) = Cardinality(runs)
            /\ \A n \in DOMAIN order :
                 \E ab \in runs :
                    /\ ab[1] = order[n]
                    /\ result[n].severity = "warning"
                    /\ result[n].line_number = ab[1]
                    /\ result[n].message =
                         MsgLongPrefix \o ToDigits(ab[2] - ab[1] + 1) \o MsgLongSuffix
                    /\ result[n].context =
                         CtxLines \o ToDigits(ab[1]) \o <<EnDash>> \o ToDigits(ab[2])

\* lint_dialogue_exposition returned one warning, for a run of 11 lines that
\* starts at line 2, and none for the run of 11 lines that reaches the last line
LongRunAtTheEndPassed ==
    /\ pc = "lint_dialogue_exposition"
    /\ Len(result) = 1
    /\ result[1].line_number = 2
    /\ LET lines == SplitLines(text)
       IN  /\ LongRuns(lines) = {<<2, 12>>}
           /\ RunToTheEnd(lines, 11)

----------------------------------------------------------------------------
(* The state file *)

(* C16: loading the ledger fails with a validation error when the state file
   is missing or is empty; no default ledger is returned, so that no checker
   runs on missing state. *)
MissingStateFails ==
    (pc # "init" /\ (~state_path.exists \/ state_path.keys = {})) =>
        pc = "ValidationError"

----------------------------------------------------------------------------
(* Retrieval without keywords or without entries *)

\* no file of the directory holds anything but white space
EmptyPool == \A f \in lore_dir.files : \A i \in DOMAIN f.content : IsSpace(f.content[i])

(* C17: retrieve_lore returns the empty list, and does return, whenever the
   keyword list is empty, the pool is empty or the directory is missing,
   whatever top_k and the snippet length are. *)
NothingToRetrieve ==
    /\ pc \in {"init", "load_lore_entries", "retrieve_lore"}
    /\ (pc = "retrieve_lore" /\ (keywords = <<>> \/ EmptyPool \/ ~lore_dir.exists))
          => result = <<>>

\* retrieve_lore returned for an empty keyword list and a pool of two entries
\* that the cap would let through
NoKeywordsWithEntries ==
    /\ pc = "retrieve_lore"
    /\ keywords = <<>>
    /\ lore_dir.exists
    /\ Cardinality({ f \in lore_dir.files : \E i \in DOMAIN f.content : ~IsSpace(f.content[i]) }) = 2
    /\ top_k = 8
    /\ max_chars_per_snippet = 600

----------------------------------------------------------------------------
(* The text of a snippet *)

\* '**<title>**' and a newline
TitleHeader(title) == <<"*", "*">> \o title \o <<"*", "*", "\n">>

\* the first n characters of a body, all of it when it is shorter
FirstChars(body, n) == [i \in 1..(IF Len(body) < n THEN Len(body) ELSE n) |-> body[i]]

\* the snippet is that of the entry: its header, the first characters of its
\* body, and '...' exactly when the body is longer than the snippet length
IsSnippetOf(snippet, entry) ==
    LET head == TitleHeader(entry.title) \o FirstChars(entry.content, max_chars_per_snippet)
    IN  IF Len(entry.content) > max_chars_per_snippet
        THEN snippet = head \o <<".", ".", ".">>
        ELSE snippet = head

(* C18: each snippet retrieve_lore returns is the title header of an entry
   followed by the first max_chars_per_snippet characters of the entry's body,
   with '...' appended if and only if the body is longer than
   max_chars_per_snippet. *)
SnippetLaw ==
    pc = "retrieve_lore" =>
        LET pool == load_lore_entries(lore_dir)
        IN  \A n \in DOMAIN result : \E i \in DOMAIN pool : IsSnippetOf(result[n], pool[i])

\* retrieve_lore returned two snippets, one of a body of exactly the snippet
\* length and one of a longer body
CutAndUncutSnippets ==
    /\ pc = "retrieve_lore"
    /\ Len(result) = 2
    /\ LET pool == load_lore_entries(lore_dir)
       IN  \E i, j \in DOMAIN pool :
              /\ Len(pool[i].content) = max_chars_per_snippet
              /\ Len(pool[j].content) > max_chars_per_snippet
              /\ IsSnippetOf(result[1], pool[i])
              /\ IsSnippetOf(result[2], pool[j])

----------------------------------------------------------------------------
(* Keywords *)

\* s[a..b] is a run of capitalized words: each word an upper-case letter
\* followed by lower-case letters, the words apart by white space only (by one
\* space only if single), no word character before or after the run
IsRun(s, a, b, single) ==
    /\ a <= b
    /\ ~IsSpace(s[a]) /\ ~IsSpace(s[b])
    /\ (a = 1 \/ ~IsWord(s[a - 1]))
    /\ (b = Len(s) \/ ~IsWord(s[b + 1]))
    /\ \A i \in a..b :
         \/ /\ IsSpace(s[i])
            /\ single => (s[i] = " " /\ ~IsSpace(s[i + 1]))
         \/ /\ IsUpper(s[i])
            /\ (i = a \/ IsSpace(s[i - 1]))
            /\ i < b /\ IsLower(s[i + 1])
         \/ /\ IsLower(s[i])
            /\ i > a /\ ~IsSpace(s[i - 1])

\* the texts of the runs that lie in no longer run
MaximalRuns(s, single) ==
    LET runs == { ab \in (DOMAIN s) \X (DOMAIN s) : IsRun(s, ab[1], ab[2], single) }
    IN  { SubSeq(s, ab[1], ab[2]) :
            ab \in { r \in runs : ~\E o \in runs :
                                    /\ o # r
                                    /\ o[1] <= r[1]
                                    /\ r[2] <= o[2] } }

NoDuplicates(list) == \A i, j \in DOMAIN list : list[i] = list[j] => i = j

(* C19, as stated: extract_keywords returns each maximal run of capitalized
   words joined by single spaces exactly once, as it is written in the text,
   and nothing else. *)
KeywordsJoinedBySingleSpaces ==
    pc = "extract_keywords" =>
        /\ NoDuplicates(result)
        /\ Range(result) = MaximalRuns(text, TRUE)

(* C19, amended: extract_keywords returns each maximal run of capitalized
   words exactly once, as it is written in the text, where consecutive
   capitalized words apart by any white space (several spaces, a line break)
   belong to one run; it returns the empty list for a text without capitalized
   word, and exactly Alice and Moscow for the example sentence. *)
KeywordsJoinedByWhiteSpace ==
    pc = "extract_keywords" =>
        /\ NoDuplicates(result)
        /\ Range(result) = MaximalRuns(text, FALSE)
        /\ (text = DocScenario => Range(result) = {KwAlice, KwMoscow})
        /\ (text = DocNoCapital => result = <<>>)

\* extract_keywords returned two keywords, one of them two capitalized words
\* with a line break between them
KeywordAcrossLineBreak ==
    /\ pc = "extract_keywords"
    /\ Len(result) = 2
    /\ \E n \in DOMAIN result : NL \in Range(result[n])

----------------------------------------------------------------------------
(* Repeated runs *)

(* C20: lint_style is deterministic: all the runs of lint_style on one
   document, pattern set and scene location hand the caller the same
   violations in the same order, whatever other checks ran between them. *)
SameViolationsEveryRun ==
    \A i, j \in DOMAIN returned :
        (returned[i].call = "lint_style" /\ returned[j].call = "lint_style")
            => returned[i].violations = returned[j].violations

\* the caller kept the violations of a run of lint_style, then those of
\* lint_banned_phrases, then those of a later run of lint_style
TwoRunsAroundAnotherCheck ==
    /\ Len(returned) = 3
    /\ returned[1].call = "lint_style"
    /\ returned[2].call = "lint_banned_phrases"
    /\ returned[3].call = "lint_style"
    /\ returned[1].violations # <<>>
    /\ returned[2].violations # returned[1].violations

----------------------------------------------------------------------------
(* How many snippets *)

\* the pool entries whose best score is above the relevance floor
Qualifying(score) == { i \in DOMAIN score : score[i] > 30 }

(* C30: for a result cap top_k of zero or more, retrieve_lore returns exactly
   min(top_k, number of pool entries that score above 30) snippets, and they
   are those of the highest-ranked entries that score above 30, in rank
   order: no such entry within the first top_k ranks is dropped. *)
ExactCountLaw ==
    (pc = "retrieve_lore" /\ top_k >= 0) =>
        LET pool == load_lore_entries(lore_dir)
            score == PoolScores(pool)
            snippet == PoolSnippets(pool)
            ranked == Ranking(score)
            count == Min({top_k, Cardinality(Qualifying(score))})
        IN  /\ Len(result) = count
            /\ \A r \in 1..count :
                /\ score[ranked[r]] > 30
                /\ result[r] = snippet[ranked[r]]

\* retrieve_lore returned top_k snippets from a pool with more entries above
\* the floor than that, the first entry of the pool not among the best
CapBelowQualifying ==
    /\ pc = "retrieve_lore"
    /\ top_k >= 1
    /\ Len(result) = top_k
    /\ LET score == PoolScores(load_lore_entries(lore_dir))
       IN  /\ Cardinality(Qualifying(score)) > top_k
           /\ \E i \in DOMAIN score : score[i] <= 30
           /\ \E i \in DOMAIN score : score[i] > score[1]

----------------------------------------------------------------------------
(* The shape of a violation, and what a call leaves alone *)

ContinuityCalls ==
    {"lint_location_change", "lint_who_present", "lint_timeline", "lint_continuity"}

StyleCalls ==
    {"lint_banned_phrases", "lint_pov_and_address", "lint_dialogue_exposition", "lint_style"}

\* the violation of lint_dialogue_exposition, whose context names a line range
IsLongBlockViolation(v) == StartsWithAt(v.message, 1, MsgLongPrefix)

(* C22: every violation of the continuity checker has category continuity,
   severity warning and no line number; every violation of the style checker
   has category style, severity error or warning, a line number between 1
   and the number of lines of the document, and, unless it reports a long
   dialogue block, a context of at most 120 characters. *)
ViolationShape ==
    /\ pc \in ContinuityCalls =>
          \A n \in DOMAIN result :
              /\ result[n].category = "continuity"
              /\ result[n].severity = "warning"
              /\ result[n].line_number = NoLine
    /\ pc \in StyleCalls =>
          \A n \in DOMAIN result :
              /\ result[n].category = "style"
              /\ result[n].severity \in {"error", "warning"}
              /\ result[n].line_number \in 1..Len(SplitLines(text))
              /\ ~IsLongBlockViolation(result[n]) => Len(result[n].context) <= 120

\* lint_style returned an error and a warning for the second line, a line
\* of more than 120 characters, each with a context of 120 characters
LongLineCutInContext ==
    /\ pc = "lint_style"
    /\ \E n, m \in DOMAIN result :
          /\ result[n].severity = "error"
          /\ result[m].severity = "warning"
          /\ result[n].line_number = 2
          /\ result[m].line_number = 2
          /\ Len(result[n].context) = 120
          /\ Len(SplitLines(text)[2]) > 120

\* a call returned from lint_style, lint_continuity or retrieve_lore, or from
\* one of the checks they are made of
IsOperationStep ==
    pc' \in ContinuityCalls \cup StyleCalls
              \cup {"retrieve_lore", "load_lore_entries", "OverflowError"}

(* C21: a call of lint_style, lint_continuity or retrieve_lore (or of one of
   their parts) leaves the ledger, the banned and warn pattern lists and the
   lore pool as they were, and writes no file: the lore directory, the state
   file, the configuration files, the scenes and the outputs directory are
   unchanged, so that they are after any sequence of such calls what they
   were before it. *)
InputsUntouched ==
    [][IsOperationStep =>
          /\ UNCHANGED <<ledger, banned_phrases, lore_dir>>
          /\ UNCHANGED <<text, keywords, scene_location>>
          /\ UNCHANGED <<state_path, config_files, scenes, outputs>>]_vars

\* lint_continuity returned a warning for the name of a ledger that still
\* holds it, next to a pattern list and a lore pool that are not empty
CalledWithInputsInPlace ==
    /\ pc = "lint_continuity"
    /\ result # <<>>
    /\ ledger.who_present = <<NameAlice>>
    /\ banned_phrases.banned_regex # <<>>
    /\ load_lore_entries(lore_dir) # <<>>

----------------------------------------------------------------------------
(* The workspace *)

(* C23: create_workspace never overwrites an existing configuration file:
   each of state.yaml, style_rules.yaml and banned_phrases.yaml that exists
   before a call has the same content after it, however many calls were made
   and whatever the user saved or removed between them; a file the call
   writes was absent before, and holds the starter content after. *)
ExistingFilesKept ==
    [][pc' = "create_workspace" =>
          /\ state_path.exists => state_path' = state_path
          /\ state_path' # state_path => (~state_path.exists /\ state_path' = StarterState)
          /\ \A name \in ConfigNames :
                /\ config_files[name] # Absent => config_files'[name] = config_files[name]
                /\ config_files'[name] # config_files[name] =>
                      (config_files[name] = Absent /\ config_files'[name] = Starter(name))]_vars

\* create_workspace returned in a workspace that holds a state file and a
\* style rules file the user saved, and the starter list of banned phrases
EditedFilesNextToStarter ==
    /\ pc = "create_workspace"
    /\ state_path \in UserStates
    /\ config_files["style_rules.yaml"] = Edited(MaxEdits)
    /\ config_files["banned_phrases.yaml"] = Starter("banned_phrases.yaml")

----------------------------------------------------------------------------
(* Scenes *)

(* C27: creating a new scene never overwrites a scene file: whatever scenes
   were created and removed before, a new_scene that writes leaves every file
   already present as it was and adds one file, under a number no file had. *)
NewSceneKeepsScenes ==
    [][pc' = "new_scene" =>
          /\ \A n \in DOMAIN scenes : n \in DOMAIN scenes' /\ scenes'[n] = scenes[n]
          /\ Cardinality(DOMAIN scenes') = Cardinality(DOMAIN scenes) + 1]_vars

----------------------------------------------------------------------------
(* The pipelines *)

CallsOf(name) == { i \in DOMAIN trace : trace[i] = name }

\* the key set for the provider the settings select
ConfiguredKey(s) ==
    IF Lower(s.provider) = ProviderOpenAI THEN s.openai_api_key ELSE s.anthropic_api_key

(* C26: the provider factory is handed the key of the selected provider:
   once the settings passed validate_provider, an OpenAI provider is built
   with openai_api_key and an Anthropic provider with anthropic_api_key, in
   draft_scene and in revise_draft, also when both keys are set. *)
ProviderGetsItsOwnKey ==
    /\ pc = "draft_scene:generate" => provider.api_key = ConfiguredKey(settings)
    /\ pc = "revise_draft:generate" => provider.api_key = ConfiguredKey(revise_settings)

(* C25: after _apply_settings replaced the settings object, a pipeline that
   reaches its provider has validated the object that is current, and built
   the provider from its provider name, key and model name; the generation
   it then asks for carries its max_tokens. *)
PipelinesUseAppliedSettings ==
    /\ pc \in {"draft_scene:generate", "revise_draft:generate"} =>
          /\ ~validate_provider_raises(settings)
          /\ provider = get_provider(settings.provider, api_key_or(settings),
                                     settings.model_name)
    /\ pc \in {"draft_scene:lint", "revise_draft:lint"} =>
          generated.max_tokens = settings.max_tokens

(* C29: provider validation precedes generation in draft_scene and in
   revise_draft: every generate call comes after a validate_provider call
   and after the loads of the ledger and of the banned phrases; a pipeline
   that is about to generate, or has generated, runs with settings that pass
   validate_provider; when validation fails, or the ledger cannot be
   constructed, the error ends the pipeline with no generate call, no
   generated text and no result. *)
ValidationPrecedesGeneration ==
    /\ \A g \in CallsOf("generate") :
          /\ \E v \in CallsOf("validate_provider") : v < g
          /\ \E l \in CallsOf("load_continuity_ledger") : l < g
          /\ \E b \in CallsOf("load_banned_phrases") : b < g
    /\ pc \in {"draft_scene:generate", "draft_scene:lint"} =>
          ~validate_provider_raises(settings)
    /\ pc \in {"revise_draft:generate", "revise_draft:lint"} =>
          ~validate_provider_raises(revise_settings)
    /\ pc \in {"ValueError", "ValidationError"} =>
          /\ CallsOf("generate") = {}
          /\ generated = NoGeneration
          /\ result = NoResult
    /\ (trace # <<>> /\ load_continuity_ledger_raises(state_path)) =>
          /\ Idle
          /\ CallsOf("generate") = {}
          /\ result = NoResult

\* validate_provider raised in a pipeline that had loaded the ledger and
\* built its prompt: the selected provider's key is empty
ValidationFailedBeforeGeneration ==
    /\ pc = "ValueError"
    /\ prompt # NoPrompt
    /\ trace[Len(trace)] = "validate_provider"
    /\ \E s \in {settings, revise_settings} :
          /\ Lower(s.provider) = ProviderAnthropic
          /\ s.anthropic_api_key = NoKey

\* the lines "- <message>" of a text, in order, without the "- "
BulletLines(s) ==
    LET bullets == SelectSeq(SplitLines(s), LAMBDA line : StartsWithAt(line, 1, Bullet))
    IN  [i \in DOMAIN bullets |-> SubSeq(bullets[i], Len(Bullet) + 1, Len(bullets[i]))]

(* C28: the revision prompt lists exactly the messages of the violations
   lint_style and lint_continuity find in the input draft, style first, and
   shows the draft; revise_draft returns the generated text with the
   violations the two checkers find in it under the same ledger and the same
   banned phrases, the checks of the draft coming before the generate call
   and those of the revised text after it. *)
RevisedTextViolationsReturned ==
    /\ prompt.kind = "revise" =>
          /\ BulletLines(prompt.VIOLATIONS) =
                MessagesOf(lint_style(text, banned_phrases, ledger.location_current))
                    \o MessagesOf(lint_continuity(text, ledger))
          /\ In(text, prompt.DRAFT_TEXT)
    /\ pc = "revise_draft" =>
          /\ result.revised_text = generated.text
          /\ generated.prompt = prompt
          /\ result.style_violations =
                lint_style(result.revised_text, banned_phrases, ledger.location_current)
          /\ result.continuity_violations = lint_continuity(result.revised_text, ledger)
          /\ ledger = load_continuity_ledger(state_path)
          /\ \A g \in CallsOf("generate") :
                /\ \E i \in CallsOf("lint_style"), j \in CallsOf("lint_continuity") :
                      i < g /\ j < g
                /\ \E i \in CallsOf("lint_style"), j \in CallsOf("lint_continuity") :
                      g < i /\ g < j

\* revise_draft returned a clean revision of a draft that had a style and a
\* banned-phrase violation, both listed in the prompt
CleanRevisionOfFlawedDraft ==
    /\ pc = "revise_draft"
    /\ Len(BulletLines(prompt.VIOLATIONS)) >= 2
    /\ result.style_violations = <<>>
    /\ lint_style(text, banned_phrases, ledger.location_current) # <<>>

Remaining == Len(result.style_violations) + Len(result.continuity_violations)

(* C24 as stated: the revise command exits with a non-zero status exactly
   when revise_draft raised, or --strict was given and a violation remains. *)
ExitStatusByPipelineAndStrict ==
    pc = "revise" =>
        (exit_code # 0 <=> (result = NoResult \/ (strict /\ Remaining > 0)))

(* C24: the draft file having been read, the revise command exits with
   status 1 when revise_draft raised, when the output files cannot be
   written because the outputs directory is absent, or when --strict was
   given and a style or continuity violation remains in the revised text;
   in every other case it exits with status 0: without --strict remaining
   violations give 0, and so does --strict with none remaining. *)
ExitStatusOfRevise ==
    pc = "revise" =>
        /\ exit_code \in {0, 1}
        /\ exit_code # 0 <=>
              \/ result = NoResult
              \/ ~outputs
              \/ strict /\ Remaining > 0
        /\ (~strict /\ outputs /\ result # NoResult) => exit_code = 0

\* the command ended with status 1 though revise_draft returned a clean text
\* and --strict was not given: there is no outputs directory
OutputsMissingAfterRevision ==
    /\ pc = "revise"
    /\ result # NoResult
    /\ Remaining = 0
    /\ ~strict
    /\ ~outputs
    /\ exit_code = 1

=============================================================================
